---- MODULE Spec2Model ----
(***************************************************************************)
(* Model of the glos driver of the gi toolkit: the GPU texture             *)
(* (oswin/driver/glos/texture.go) and the window session with its window   *)
(* thread, its callers and the shared main (executor) thread (window.go);  *)
(* and of the Viewport2D tree of gi (viewport.go).                         *)
(***************************************************************************)
EXTENDS Integers, Sequences, FiniteSets, TLC

\* ------------------------------------------------------------------------
\* Bounds
\* ------------------------------------------------------------------------
\* largest image / texture coordinate
MaxDim == 2
\* GPU texture objects one texture may generate in one run
MaxGen == 3
\* number of windows
NWin == 2
\* number of caller goroutines
NClients == 2
\* number of window operations started in one run
MaxOps == 3
\* number of resize notifications delivered in one run
MaxResize == 1

Max(a, b) == IF a >= b THEN a ELSE b
Min(a, b) == IF a <= b THEN a ELSE b

\* ------------------------------------------------------------------------
\* image.Point and image.Rectangle (Go standard library), as texture.go uses
\* them
\* ------------------------------------------------------------------------
Pt(x, y) == [X |-> x, Y |-> y]
Rect(x0, y0, x1, y1) == [Min |-> Pt(x0, y0), Max |-> Pt(x1, y1)]
ZP == Pt(0, 0)
ZR == Rect(0, 0, 0, 0)
PtSub(p, q) == Pt(p.X - q.X, p.Y - q.Y)
RectEmpty(r) == r.Min.X >= r.Max.X \/ r.Min.Y >= r.Max.Y
RectAdd(r, p) == Rect(r.Min.X + p.X, r.Min.Y + p.Y, r.Max.X + p.X, r.Max.Y + p.Y)
RectSize(r) == Pt(r.Max.X - r.Min.X, r.Max.Y - r.Min.Y)
\* (a, b and c are bound to the values of r, of s and of their overlap, so
\* that each is computed once)
RectIntersect(r, s) ==
    CHOOSE i \in {IF RectEmpty(c) THEN ZR ELSE c :
                    c \in {Rect(Max(a.Min.X, b.Min.X), Max(a.Min.Y, b.Min.Y),
                                Min(a.Max.X, b.Max.X), Min(a.Max.Y, b.Max.Y)) :
                           a \in {r}, b \in {s}}} : TRUE

Coords == 0..MaxDim
Sizes == {Pt(x, y) : x \in Coords, y \in Coords}
\* the points of a rectangle
RectPoints(r) == {Pt(x, y) : x \in r.Min.X..(r.Max.X - 1), y \in r.Min.Y..(r.Max.Y - 1)}
PtIn(p, r) == r.Min.X <= p.X /\ p.X < r.Max.X /\ r.Min.Y <= p.Y /\ p.Y < r.Max.Y

\* ------------------------------------------------------------------------
\* Images (Go standard library image.Image, image.RGBA)
\* ------------------------------------------------------------------------
\* An image has bounds Rect and a pixel buffer Pix in rows of Stride bytes,
\* four bytes to a pixel: one element of Pix is one pixel.  rgba tells an
\* *image.RGBA (8 bits per channel) from an image of another, deeper format.
\* A pixel is a number; 0 is the zero colour a new buffer holds.
PixOffset(img, x, y) == (y - img.Rect.Min.Y) * img.Stride + (x - img.Rect.Min.X) * 4
\* the element of Pix at a byte offset
PixIndex(off) == (off \div 4) + 1
\* img.At(x, y): the zero colour outside the bounds
At(img, x, y) ==
    IF PtIn(Pt(x, y), img.Rect) THEN img.Pix[PixIndex(PixOffset(img, x, y))] ELSE 0
\* the point of the image that one element of its buffer holds
PixPoint(img, i) ==
    Pt(img.Rect.Min.X + ((i - 1) % (img.Stride \div 4)),
       img.Rect.Min.Y + ((i - 1) \div (img.Stride \div 4)))

\* the conversion of a colour to 8 bits per channel (color.RGBAModel): the
\* low bits of a deeper colour are dropped
toRGBA(c) == c \div 2

\* image.NewRGBA(r): a packed buffer of zero pixels
NewRGBA(r) ==
    [rgba |-> TRUE, Rect |-> r, Stride |-> 4 * (r.Max.X - r.Min.X),
     Pix |-> [i \in 1..((r.Max.X - r.Min.X) * (r.Max.Y - r.Min.Y)) |-> 0]]

\* draw.Draw(dst, r, src, sp, draw.Src): r is clipped to dst and to the
\* bounds of src moved by r.Min - sp, then every pixel of r is the pixel of
\* src that lies sp - r.Min away from it, converted when src is not RGBA
drawSrc(dst, r, src, sp) ==
    LET orig == r.Min
        r1   == RectIntersect(r, dst.Rect)
        r2   == RectIntersect(r1, RectAdd(src.Rect, PtSub(orig, sp)))
    IN [dst EXCEPT !.Pix =
          [i \in 1..Len(dst.Pix) |->
             LET p == PixPoint(dst, i)
             IN IF PtIn(p, r2)
                THEN IF src.rgba
                     THEN At(src, p.X - orig.X + sp.X, p.Y - orig.Y + sp.Y)
                     ELSE toRGBA(At(src, p.X - orig.X + sp.X, p.Y - orig.Y + sp.Y))
                ELSE dst.Pix[i]]]

\* source images.  Every pixel of a source image has a colour of its own, so
\* that an upload shows which source pixel went where.  An *image.RGBA is
\* packed (extra = 0) or is a SubImage view of a buffer one column wider
\* (extra = 1), whose stride is that of the wider buffer.
SrcRects == {Rect(m, m, x1, y1) : m \in 0..1, x1 \in 1..MaxDim, y1 \in 1..MaxDim}
MkImage(k, r, extra) ==
    LET w == (r.Max.X - r.Min.X) + extra
        h == r.Max.Y - r.Min.Y
    IN [rgba |-> k, Rect |-> r, Stride |-> 4 * w,
        Pix |-> [i \in 1..(w * h) |-> IF k THEN i ELSE 2 * i + 1]]
Images ==
    {MkImage(k, r, 0) : k \in BOOLEAN, r \in {q \in SrcRects : ~RectEmpty(q)}}
    \cup {MkImage(TRUE, r, 1) : r \in {q \in SrcRects : ~RectEmpty(q)}}

\* ------------------------------------------------------------------------
\* The GPU texture object (OpenGL)
\* ------------------------------------------------------------------------
\* The contents of a GPU texture object: a pixel for every point of its
\* size.  Undef is a pixel that was allocated and never written, whose value
\* OpenGL leaves unspecified; no code of the driver reads a pixel back.
Undef == 0 - 1
NoPix == [p \in {} |-> Undef]
\* one pixel read by OpenGL from client memory; past the end of the buffer
\* the read is out of bounds and its value unspecified
ReadPix(buf, i) == IF i >= 1 /\ i <= Len(buf) THEN buf[i] ELSE Undef
\* gl.TexImage2D(w, h, data): allocates w x h pixels and fills them from
\* tightly packed rows of data; data is <<>> for a nil pointer
TexImage2D(w, h, data, isNil) ==
    [p \in RectPoints(Rect(0, 0, w, h)) |->
        IF isNil THEN Undef ELSE ReadPix(data, p.Y * w + p.X + 1)]
\* gl.TexSubImage2D(x, y, w, h, data): overwrites the w x h pixels at (x, y)
\* from tightly packed rows of data; a pixel outside the allocated size is
\* not written (GL_INVALID_VALUE is not modelled: the driver clips first)
TexSubImage2D(pix, x, y, w, h, data) ==
    [p \in DOMAIN pix |->
        IF PtIn(p, Rect(x, y, x + w, y + h))
        THEN ReadPix(data, (p.Y - y) * w + (p.X - x) + 1)
        ELSE pix[p]]

\* ------------------------------------------------------------------------
\* textureImpl
\* ------------------------------------------------------------------------
\* A texture value: the fields of textureImpl (an absent img or fbuff is the
\* empty sequence), and the GPU texture objects it generated: live holds the
\* objects generated and not deleted, gens and dels count the GenTextures and
\* DeleteTextures calls, peak is the largest number of objects that were live
\* at the same time, pix is the contents of the live object (NoPix when there
\* is none), unit is the texture unit the live object is bound to.
NoUnit == 0 - 1
NewTexture(sz) ==
    [init |-> FALSE, handle |-> 0, size |-> sz, img |-> <<>>, fbuff |-> <<>>,
     live |-> {}, gens |-> 0, dels |-> 0, peak |-> 0, pix |-> NoPix,
     unit |-> NoUnit]

txBounds(tx) == [Min |-> ZP, Max |-> tx.size]

\* Image(): the cached CPU image, <<>> when there is none
txImage(tx) == tx.img

\* rgbaImage: an *image.RGBA is returned as it is, whatever its stride; any
\* other image is drawn into a new RGBA image with the same bounds, from the
\* source point (0, 0)
rgbaImage(img) ==
    IF img.rgba
    THEN [rgba |-> img, err |-> FALSE]
    ELSE LET rgba == NewRGBA(img.Rect)
         IN IF rgba.Stride # RectSize(rgba.Rect).X * 4
            THEN [rgba |-> rgba, err |-> TRUE]
            ELSE [rgba |-> drawSrc(rgba, rgba.Rect, img, ZP), err |-> FALSE]

txActivate_Always(tx, texNo) ==
    [tx EXCEPT !.handle = tx.gens + 1, !.gens = tx.gens + 1,
               !.live = tx.live \cup {tx.gens + 1},
               !.peak = Max(tx.peak, Cardinality(tx.live) + 1),
               !.pix = TexImage2D(tx.size.X, tx.size.Y, <<>>, TRUE),
               !.unit = texNo, !.init = TRUE]

txActivate(tx, texNo) ==
    IF ~tx.init
    THEN [tx EXCEPT !.handle = tx.gens + 1, !.gens = tx.gens + 1,
                    !.live = tx.live \cup {tx.gens + 1},
                    !.peak = Max(tx.peak, Cardinality(tx.live) + 1),
                    !.pix = IF tx.img # <<>>
                            THEN TexImage2D(tx.size.X, tx.size.Y, tx.img[1].Pix, FALSE)
                            ELSE TexImage2D(tx.size.X, tx.size.Y, <<>>, TRUE),
                    !.unit = texNo, !.init = TRUE]
    ELSE [tx EXCEPT !.unit = texNo]

txDelete_NoGuard(tx) ==
    [tx EXCEPT !.live = tx.live \ {tx.handle}, !.dels = tx.dels + 1,
               !.pix = NoPix, !.unit = NoUnit, !.init = FALSE]

txDelete(tx) ==
    IF ~tx.init
    THEN tx
    ELSE [tx EXCEPT !.live = tx.live \ {tx.handle}, !.dels = tx.dels + 1,
                    !.pix = NoPix, !.unit = NoUnit, !.init = FALSE]

\* whether SetImage returns an error
txSetImageErr(img) == rgbaImage(img).err

txSetImage(tx, img) ==
    LET res  == rgbaImage(img)
        rgba == res.rgba
        t1   == [tx EXCEPT !.img = <<rgba>>, !.size = RectSize(rgba.Rect)]
    IN IF res.err THEN tx
       ELSE IF t1.init THEN txActivate(txDelete(t1), 0) ELSE t1

subImageDr_NoAlign(tx, dp, src, sr) ==
    LET rgba == rgbaImage(src).rgba
        sr1  == RectIntersect(sr, rgba.Rect)
    IN RectIntersect(RectAdd(sr1, dp), txBounds(tx))

\* the clipped destination rectangle of SetSubImage
subImageDr(tx, dp, src, sr) ==
    LET rgba    == rgbaImage(src).rgba
        src2dst == PtSub(dp, sr.Min)
        sr1     == RectIntersect(sr, rgba.Rect)
    IN RectIntersect(RectAdd(sr1, src2dst), txBounds(tx))

\* the element of rgba.Pix at which pix, the slice handed to OpenGL, begins
subImagePixStart(tx, dp, src, sr) ==
    LET rgba    == rgbaImage(src).rgba
        src2dst == PtSub(dp, sr.Min)
        dr      == subImageDr(tx, dp, src, sr)
    IN PixIndex(PixOffset(rgba, dr.Min.X - src2dst.X, dr.Min.Y - src2dst.Y))

\* whether SetSubImage uploads in one call
subImageBulk(tx, dp, src, sr) ==
    LET dr == subImageDr(tx, dp, src, sr)
    IN (dr.Max.X - dr.Min.X) * 4 = rgbaImage(src).rgba.Stride

\* the row-by-row upload of SetSubImage, from row y on; p is the byte offset
\* of the row in pix
RECURSIVE uploadRows(_, _, _, _, _, _)
uploadRows(gpix, dr, pix, stride, y, p) ==
    IF y >= dr.Max.Y
    THEN gpix
    ELSE uploadRows(TexSubImage2D(gpix, dr.Min.X, y, dr.Max.X - dr.Min.X, 1,
                                  SubSeq(pix, PixIndex(p), Len(pix))),
                    dr, pix, stride, y + 1, p + stride)

\* the uploads of SetSubImage, once rgba, dr and pix are computed
subImageUpload(tx, rgba, dr, pix) ==
    LET t1    == txActivate(tx, 0)
        width == dr.Max.X - dr.Min.X
    IN IF width * 4 = rgba.Stride
       THEN [t1 EXCEPT !.pix = TexSubImage2D(t1.pix, dr.Min.X, dr.Min.Y, width,
                                             dr.Max.Y - dr.Min.Y, pix)]
       ELSE [t1 EXCEPT !.pix = uploadRows(t1.pix, dr, pix, rgba.Stride, dr.Min.Y, 0)]

txSetSubImage_ActivateFirst(tx, dp, src, sr) ==
    CHOOSE t \in
        {IF res.err
         THEN tx
         ELSE IF RectEmpty(dr)
              THEN txActivate(tx, 0)
              ELSE CHOOSE u \in
                     {subImageUpload(tx, res.rgba, dr, pix) :
                        pix \in {SubSeq(res.rgba.Pix, subImagePixStart(tx, dp, src, sr),
                                        Len(res.rgba.Pix))}} : TRUE
         : res \in {rgbaImage(src)}, dr \in {subImageDr(tx, dp, src, sr)}} : TRUE

\* (res, dr and pix are bound to their values, so that each is computed once)
txSetSubImage(tx, dp, src, sr) ==
    CHOOSE t \in
        {IF res.err \/ RectEmpty(dr)
         THEN tx
         ELSE CHOOSE u \in
                {subImageUpload(tx, res.rgba, dr, pix) :
                   pix \in {SubSeq(res.rgba.Pix, subImagePixStart(tx, dp, src, sr),
                                   Len(res.rgba.Pix))}} : TRUE
         : res \in {rgbaImage(src)}, dr \in {subImageDr(tx, dp, src, sr)}} : TRUE

\* the elements of rgba.Pix that the OpenGL calls of SetSubImage read
subImageReads(tx, dp, src, sr) ==
    LET dr    == subImageDr(tx, dp, src, sr)
        start == subImagePixStart(tx, dp, src, sr)
        width == dr.Max.X - dr.Min.X
        rows  == dr.Max.Y - dr.Min.Y
        spix  == rgbaImage(src).rgba.Stride \div 4
    IN IF RectEmpty(dr) THEN {}
       ELSE IF subImageBulk(tx, dp, src, sr)
            THEN {start + k : k \in 0..(width * rows - 1)}
            ELSE {start + j * spix + k : j \in 0..(rows - 1), k \in 0..(width - 1)}

txSetSize_KeepImage(tx, size) ==
    IF tx.size = size
    THEN tx
    ELSE LET wasInit == tx.init
             t1 == IF tx.init THEN txDelete(tx) ELSE tx
             t2 == [t1 EXCEPT !.size = size]
         IN IF wasInit THEN txActivate(t2, 0) ELSE t2

txSetSize_NoShortcut(tx, size) ==
    LET wasInit == tx.init
        t1 == IF tx.init THEN txDelete(tx) ELSE tx
        t2 == [t1 EXCEPT !.size = size, !.img = <<>>]
    IN IF wasInit THEN txActivate(t2, 0) ELSE t2

txSetSize(tx, size) ==
    IF tx.size = size
    THEN tx
    ELSE LET wasInit == tx.init
             t1 == IF tx.init THEN txDelete(tx) ELSE tx
             t2 == [t1 EXCEPT !.size = size, !.img = <<>>]
         IN IF wasInit THEN txActivate(t2, 0) ELSE t2

\* ActivateFramebuffer: the framebuffer is made from the size of the texture
\* (NewFramebuffer takes it by value) and is given the texture (SetTexture),
\* whose GPU object it is attached to, when there is none yet; an existing
\* one is activated as it is
txActivateFramebuffer(tx) ==
    LET t1 == txActivate(tx, 0)
    IN IF t1.fbuff = <<>>
       THEN [t1 EXCEPT !.fbuff = <<[size |-> t1.size, attached |-> t1.handle]>>]
       ELSE t1

txDeleteFramebuffer(tx) ==
    IF tx.fbuff # <<>> THEN [tx EXCEPT !.fbuff = <<>>] ELSE tx


\* ------------------------------------------------------------------------
\* Viewport2D (gi/viewport.go)
\* ------------------------------------------------------------------------
\* The tree is a root Viewport2D, child of a gi Window or of nothing, with
\* two children: a widget "wdg" and a child Viewport2D "sub".  A scene g
\* holds the tree: g.vps the two viewports, g.wdg the widget, g.win the
\* window, g.trace the calls made by the operation in progress, and
\* g.behind, kept aside for the comparison, what the root itself and its
\* widget drew into the root's pixels.
VpIds == {"root", "sub"}
\* background colours: 0 is fully transparent, SemiCol is semi-transparent
RootBg == 1
SubCols == {2, 3}
WdgCols == {4, 5}
SemiCol == 3

\* ViewBox2D.Bounds: the rectangle in the parent; ViewBox2D.SizeRect: the
\* same size at the origin
vbBounds(vb) == Rect(vb.Min.X, vb.Min.Y, vb.Min.X + vb.Size.X, vb.Min.Y + vb.Size.Y)
vbSizeRect(vb) == Rect(0, 0, vb.Size.X, vb.Size.Y)

\* NewViewport2DForRGBA: the pixels given, ViewBox of their size, no backing
NewViewport2DForRGBA(im) ==
    [Viewport |-> "nil", Fill |-> FALSE, bg |-> 0,
     ViewBox |-> [Min |-> ZP, Size |-> RectSize(im.Rect)], VpBBox |-> ZR,
     Render |-> <<>>, Pixels |-> im, Backing |-> <<>>]
NewViewport2D(width, height) == NewViewport2DForRGBA(NewRGBA(Rect(0, 0, width, height)))

\* one call made by an operation: the function, the node it was called on
\* and, for CopyBacking, the parent's pixels that it read
TraceEntry(fn, on, pix) == [fn |-> fn, on |-> on, pix |-> pix]
Log(g, fn, on) == [g EXCEPT !.trace = Append(@, TraceEntry(fn, on, NewRGBA(ZR)))]

\* RenderState.PushBounds / PopBounds: the stack of clip rectangles
rsPushBounds(rs, b) == Append(rs, b)
rsPopBounds(rs) == SubSeq(rs, 1, Len(rs) - 1)
\* the clip in force: the top of the stack, the whole image when it is empty
rsBounds(rs, img) == IF rs = <<>> THEN img.Rect ELSE rs[Len(rs)]

\* Paint: every pixel of r inside the clip takes the colour c
fillRect(img, r, c) ==
    [img EXCEPT !.Pix = [i \in 1..Len(img.Pix) |->
                           IF PtIn(PixPoint(img, i), r) THEN c ELSE img.Pix[i]]]
paint(g, v, r, c) ==
    LET clip == RectIntersect(r, rsBounds(g.vps[v].Render, g.vps[v].Pixels))
    IN [g EXCEPT !.vps[v].Pixels = fillRect(@, clip, c),
                 !.behind = IF v = "root" THEN fillRect(@, clip, c) ELSE @]

\* DrawIntoParent: the backing, when there is one, then the pixels, both
\* with draw.Src from the source point (0, 0)
DrawIntoParent_Over(g, v, parVp) ==
    LET vp == g.vps[v]
        r  == vbBounds(vp.ViewBox)
        p1 == IF vp.Backing # <<>>
              THEN drawSrc(g.vps[parVp].Pixels, r, vp.Backing[1], ZP)
              ELSE g.vps[parVp].Pixels
        p2 == drawSrc(p1, r, vp.Pixels, ZP)
        p3 == [p2 EXCEPT !.Pix = [i \in 1..Len(p2.Pix) |->
                  IF p2.Pix[i] = 0 THEN p1.Pix[i]
                  ELSE IF p2.Pix[i] = SemiCol /\ PtIn(PixPoint(p2, i), r)
                       THEN (p1.Pix[i] + SemiCol) % 8
                       ELSE p2.Pix[i]]]
    IN Log([g EXCEPT !.vps[parVp].Pixels = p3], "DrawIntoParent", v)

DrawIntoParent(g, v, parVp) ==
    LET vp == g.vps[v]
        r  == vbBounds(vp.ViewBox)
        p1 == IF vp.Backing # <<>>
              THEN drawSrc(g.vps[parVp].Pixels, r, vp.Backing[1], ZP)
              ELSE g.vps[parVp].Pixels
        p2 == drawSrc(p1, r, vp.Pixels, ZP)
    IN Log([g EXCEPT !.vps[parVp].Pixels = p2], "DrawIntoParent", v)

\* CopyBacking: the backing is made of the ViewBox's size on the first copy,
\* then the parent's pixels are drawn into it over r from the source point
\* (0, 0)
CopyBacking(g, v, parVp) ==
    LET vp == g.vps[v]
        r  == vbBounds(vp.ViewBox)
        b0 == IF vp.Backing = <<>> THEN NewRGBA(vbSizeRect(vp.ViewBox)) ELSE vp.Backing[1]
    IN [g EXCEPT !.vps[v].Backing = <<drawSrc(b0, r, g.vps[parVp].Pixels, ZP)>>,
                 !.trace = Append(@, TraceEntry("CopyBacking", v, g.vps[parVp].Pixels))]

\* DrawIntoWindow: the pixels are copied to the screen of the Window found
\* above the viewport, if there is one
DrawIntoWindow(g, v) ==
    IF g.win.has
    THEN Log([g EXCEPT !.win.img = <<g.vps[v].Pixels>>], "DrawIntoWindow", v)
    ELSE g

RenderViewport2D_Present(g, v) ==
    IF g.vps[v].Viewport # "nil"
    THEN DrawIntoWindow(DrawIntoParent(CopyBacking(g, v, g.vps[v].Viewport),
                                       v, g.vps[v].Viewport), v)
    ELSE DrawIntoWindow(g, v)

RenderViewport2D(g, v) ==
    IF g.vps[v].Viewport # "nil"
    THEN DrawIntoParent(CopyBacking(g, v, g.vps[v].Viewport), v, g.vps[v].Viewport)
    ELSE DrawIntoWindow(g, v)

\* PushBounds: nothing is pushed for an empty VpBBox
PushBounds_Always(g, v) ==
    [ok |-> TRUE,
     g  |-> Log([g EXCEPT !.vps[v].Render = rsPushBounds(@, g.vps[v].VpBBox)],
                "PushBounds", v)]

PushBounds(g, v) ==
    IF RectEmpty(g.vps[v].VpBBox)
    THEN [ok |-> FALSE, g |-> g]
    ELSE [ok |-> TRUE,
          g  |-> Log([g EXCEPT !.vps[v].Render = rsPushBounds(@, g.vps[v].VpBBox)],
                     "PushBounds", v)]

PopBounds(g, v) == Log([g EXCEPT !.vps[v].Render = rsPopBounds(@)], "PopBounds", v)

\* Render2D of the widget: its colour over its bounding box, between a push
\* and a pop of that box on its viewport's stack; nothing for an empty box
wdgRender2D(g) ==
    IF RectEmpty(g.wdg.VpBBox)
    THEN g
    ELSE LET g1 == [g EXCEPT !.vps["root"].Render = rsPushBounds(@, g.wdg.VpBBox)]
             g2 == Log(paint(g1, "root", g.wdg.VpBBox, g.wdg.col), "Render2D", "wdg")
         IN [g2 EXCEPT !.vps["root"].Render = rsPopBounds(@)]

RECURSIVE Render2D(_, _)
\* Render2DChildren: the children in their order, the widget below the
\* child viewport
Render2DChildren(g, v) ==
    IF v = "root" THEN Render2D(wdgRender2D(g), "sub") ELSE g

\* pc.DrawRectangle with the background colour as fill style
DrawRectangle(g, v, x, y, w, h) == Log(paint(g, v, Rect(x, y, x + w, y + h), g.vps[v].bg), "Fill", v)

Render2D_NoPop(g, v) ==
    LET pb == PushBounds(g, v)
    IN IF pb.ok
       THEN LET g1 == IF pb.g.vps[v].Fill
                      THEN DrawRectangle(pb.g, v, 0, 0, pb.g.vps[v].ViewBox.Size.X,
                                         pb.g.vps[v].ViewBox.Size.Y)
                      ELSE pb.g
            IN RenderViewport2D(Render2DChildren(g1, v), v)
       ELSE pb.g

Render2D(g, v) ==
    LET pb == PushBounds(g, v)
    IN IF pb.ok
       THEN LET g1 == IF pb.g.vps[v].Fill
                      THEN DrawRectangle(pb.g, v, 0, 0, pb.g.vps[v].ViewBox.Size.X,
                                         pb.g.vps[v].ViewBox.Size.Y)
                      ELSE pb.g
            IN PopBounds(RenderViewport2D(Render2DChildren(g1, v), v), v)
       ELSE pb.g

\* CanReRender2D: always true for viewports, a fixed capability of the
\* widget's kind
CanReRender2D(g, node) == IF node \in VpIds THEN TRUE ELSE g.wdg.can

\* Layout2D: the viewport's VpBBox is the bounds of its pixels; then its
\* children are laid out, the widget over its allocated box
RECURSIVE Layout2D(_, _)
Layout2DChildren(g, v) ==
    IF v = "root"
    THEN Layout2D([g EXCEPT !.wdg.VpBBox = RectIntersect(g.wdg.alloc,
                                                        g.vps["root"].VpBBox)], "sub")
    ELSE g
Layout2D(g, v) == Layout2DChildren([g EXCEPT !.vps[v].VpBBox = g.vps[v].Pixels.Rect], v)

\* the passes over a subtree
Style2DTree(g, node) == Log(g, "Style2DTree", node)
Layout2DTree(g, v) == Layout2D(g, v)
Render2DTree(g, node) == IF node = "wdg" THEN wdgRender2D(g) ELSE Render2D(g, node)
FullRender2DTree(g, v) ==
    Render2DTree(Layout2DTree(Style2DTree(Log(g, "FullRender2DTree", v), v), v), v)
ReRender2DTree(g, v) == Render2DTree(Layout2DTree(Log(g, "ReRender2DTree", v), v), v)

\* ReRender2DNode: the node's subtree is rendered, then the viewport is
\* drawn into its parent or its window
ReRender2DNode_Full(g, v, node) ==
    RenderViewport2D(Render2DTree(Log(g, "ReRender2DNode", node), v), v)

ReRender2DNode(g, v, node) ==
    RenderViewport2D(Render2DTree(Log(g, "ReRender2DNode", node), node), v)

\* the signals of a node (ki.NodeSignals): NodeSignalAnyMod holds of the
\* changes of the tree, NodeSignalAnyUpdate of the updates of a node
NodeSignals == {"ChildAdded", "Updated", "Deleting"}
NodeSignalAnyMod(sig) == sig = "ChildAdded"
NodeSignalAnyUpdate(sig) == sig = "Updated"

\* SignalViewport2D: the viewport vp is told that node has changed
SignalViewport2D_UpdateFirst(g, vp, node, sig) ==
    IF (NodeSignalAnyMod(sig) \/ NodeSignalAnyUpdate(sig)) /\ CanReRender2D(g, node)
    THEN ReRender2DNode(g, vp, node)
    ELSE IF NodeSignalAnyMod(sig)
         THEN FullRender2DTree(g, vp)
         ELSE IF NodeSignalAnyUpdate(sig)
              THEN ReRender2DTree(Style2DTree(g, node), vp)
              ELSE g

SignalViewport2D(g, vp, node, sig) ==
    IF NodeSignalAnyMod(sig)
    THEN FullRender2DTree(g, vp)
    ELSE IF NodeSignalAnyUpdate(sig)
         THEN IF CanReRender2D(g, node)
              THEN ReRender2DNode(g, vp, node)
              ELSE ReRender2DTree(Style2DTree(g, node), vp)
         ELSE g

\* the closure that Init2D connects to the viewport's own NodeSig: a full
\* render on every signal
Init2DNodeSig(g, rvp, sig) == FullRender2DTree(g, rvp)

\* the tree after its construction: nothing laid out, nothing rendered
NewScene(min, size, fill, can, has) ==
    [vps |-> [v \in VpIds |->
                IF v = "root"
                THEN [NewViewport2D(MaxDim, MaxDim) EXCEPT !.Fill = TRUE, !.bg = RootBg]
                ELSE [NewViewport2D(size.X, size.Y) EXCEPT
                        !.Viewport = "root", !.Fill = fill, !.bg = 2,
                        !.ViewBox.Min = min]],
     wdg |-> [alloc |-> Rect(0, 0, 1, 1), VpBBox |-> ZR, col |-> 4, can |-> can],
     win |-> [has |-> has, img |-> <<>>],
     behind |-> NewRGBA(Rect(0, 0, MaxDim, MaxDim)),
     trace |-> <<>>]

\* ------------------------------------------------------------------------
\* State
\* ------------------------------------------------------------------------
Windows == 1..NWin
Clients == 1..NClients
\* client sizes of a window (800x600 and 400x300, scaled down)
WinSizes == {Pt(2, 2), Pt(1, 1)}
\* the order of the teardown steps of Close
CloseSteps == <<"stop", "hook", "event", "tex", "destroy">>

VARIABLES
    tex,            \* a texture driven directly through its own methods
    call,           \* the last call made on tex: its name, its arguments and
                    \* the texture before it
    winTex,         \* windowImpl.winTex of each window: <<>> (nil) or <<texture>>
    glw,            \* the platform window of each window: destroyed, client size
    Sz,             \* WindowBase.Sz of each window
    events,         \* the event queue (event.Deque) of each window
    closeCleanFunc, \* whether a cleanup hook is registered, per window
    closeReqFunc,   \* whether a close-request hook is registered, per window
    quitting,       \* theApp.quitting
    wl,             \* the winLoop goroutine of each window
    cl,             \* the caller goroutines
    mn,             \* the main (executor) thread
    ctx,            \* the window whose context is current on the main thread, 0: none
    offMain,        \* the GPU calls that were issued by another thread than main
    swapCtx,        \* per window: the context that was current at its last swap
    closeLog,       \* the teardown steps performed on each window, in order
    opsStarted,     \* number of operations started
    resizes,        \* number of resize notifications delivered
    panicked,       \* a nil dereference ended the process
    Flag,           \* WindowBase.Flag of each window: the set of its state flags
    vps,            \* the viewports of the tree
    wdg,            \* the widget of the root viewport
    gwin,           \* the gi Window above the root: whether there is one, its screen
    behind,         \* what the root and its widget drew into the root's pixels
    vlog            \* the last operation on the tree: its calls, the tree before it

texVars == <<tex, call>>
winVars == <<winTex, glw, Sz, events, closeCleanFunc, closeReqFunc, quitting, wl,
             cl, mn, ctx, offMain, swapCtx, closeLog, opsStarted, resizes, panicked>>
guiVars == <<Flag, vps, wdg, gwin, behind, vlog>>
vars == <<tex, call, winTex, glw, Sz, events, closeCleanFunc, closeReqFunc, quitting, wl,
          cl, mn, ctx, offMain, swapCtx, closeLog, opsStarted, resizes, panicked,
          Flag, vps, wdg, gwin, behind, vlog>>

\* no swap of the window yet
NoSwap == 0 - 1
\* a call on the texture and the error it returned; the arguments a method
\* does not have are zero
Call(op, pre, dp, src, sr, size, err) ==
    [op |-> op, pre |-> pre, dp |-> dp, src |-> src, sr |-> sr, size |-> size,
     err |-> err]
NoImage == NewRGBA(ZR)
NoCall == Call("none", NewTexture(ZP), ZP, NoImage, ZR, ZP, FALSE)
\* a tree that is not used, and no operation on it yet
IdleScene == NewScene(ZP, Pt(1, 1), FALSE, FALSE, FALSE)
NoLog == [op |-> "none", node |-> "none", sig |-> "none", trace |-> <<>>, pre |-> IdleScene]
Idle == [pc |-> "idle", fn |-> "none", win |-> 0, from |-> <<"none", 0>>]
IdleClient == [pc |-> "idle", op |-> "none", win |-> 0, after |-> "ret", runs |-> 0,
               fn |-> "plain"]

\* the state after NewWindow: hidden window, winLoop started, no hook
InitWin ==
    /\ tex = NewTexture(ZP)
    /\ call = NoCall
    /\ winTex = [w \in Windows |-> <<NewTexture(Pt(2, 2))>>]
    /\ glw = [w \in Windows |-> [destroyed |-> FALSE, size |-> Pt(2, 2)]]
    /\ Sz = [w \in Windows |-> Pt(2, 2)]
    /\ events = [w \in Windows |-> <<>>]
    /\ closeCleanFunc = [w \in Windows |-> FALSE]
    /\ closeReqFunc = [w \in Windows |-> FALSE]
    /\ quitting = FALSE
    /\ wl = [w \in Windows |-> [pc |-> "select", cur |-> 0, swaps |-> 0]]
    /\ cl = [c \in Clients |-> IdleClient]
    /\ mn = Idle
    /\ ctx = 0
    /\ offMain = {}
    /\ swapCtx = [w \in Windows |-> NoSwap]
    /\ closeLog = [w \in Windows |-> <<>>]
    /\ opsStarted = 0
    /\ resizes = 0
    /\ panicked = FALSE
    /\ Flag = [w \in Windows |-> {}]
    /\ vps = IdleScene.vps
    /\ wdg = IdleScene.wdg
    /\ gwin = IdleScene.win
    /\ behind = IdleScene.behind
    /\ vlog = NoLog

\* a texture before its first activation, of no size or of a given size; the
\* windows are not used
InitTex ==
    /\ tex \in {NewTexture(sz) : sz \in {ZP, Pt(2, 2)}}
    /\ call = NoCall
    /\ winTex = [w \in Windows |-> <<NewTexture(Pt(2, 2))>>]
    /\ glw = [w \in Windows |-> [destroyed |-> FALSE, size |-> Pt(2, 2)]]
    /\ Sz = [w \in Windows |-> Pt(2, 2)]
    /\ events = [w \in Windows |-> <<>>]
    /\ closeCleanFunc = [w \in Windows |-> FALSE]
    /\ closeReqFunc = [w \in Windows |-> FALSE]
    /\ quitting = FALSE
    /\ wl = [w \in Windows |-> [pc |-> "select", cur |-> 0, swaps |-> 0]]
    /\ cl = [c \in Clients |-> IdleClient]
    /\ mn = Idle
    /\ ctx = 0
    /\ offMain = {}
    /\ swapCtx = [w \in Windows |-> NoSwap]
    /\ closeLog = [w \in Windows |-> <<>>]
    /\ opsStarted = 0
    /\ resizes = 0
    /\ panicked = FALSE
    /\ Flag = [w \in Windows |-> {}]
    /\ vps = IdleScene.vps
    /\ wdg = IdleScene.wdg
    /\ gwin = IdleScene.win
    /\ behind = IdleScene.behind
    /\ vlog = NoLog

\* ------------------------------------------------------------------------
\* The texture driven through its methods, one call at a time
\* ------------------------------------------------------------------------
\* offsets and source rectangles handed to SetSubImage
Offsets == {Pt(x, y) : x \in 0..1, y \in 0..1}
SubRects == {Rect(m, m, x1, y1) : m \in 0..1, x1 \in 1..MaxDim, y1 \in 1..MaxDim}
\* the arguments of the calls of a long run: an RGBA and a deeper image, an
\* upload inside the texture and one outside it, three sizes
TexImages == {MkImage(TRUE, Rect(0, 0, 1, 1), 0), MkImage(FALSE, Rect(0, 0, MaxDim, MaxDim), 0)}
TexSubImgArgs == {[dp |-> Pt(0, 0), src |-> MkImage(TRUE, Rect(0, 0, 1, 1), 0),
                   sr |-> Rect(0, 0, 1, 1)],
                  [dp |-> Pt(MaxDim, MaxDim), src |-> MkImage(TRUE, Rect(0, 0, 1, 1), 0),
                   sr |-> Rect(0, 0, 1, 1)]}
TexSizes == {ZP, Pt(1, 1), Pt(MaxDim, MaxDim)}

TexActivate(texNo) ==
    /\ tex.gens < MaxGen
    /\ tex' = txActivate(tex, texNo)
    /\ call' = Call("Activate", tex, ZP, NoImage, ZR, ZP, FALSE)
    /\ UNCHANGED <<guiVars, winVars>>

TexSetImage(img) ==
    /\ tex.gens < MaxGen
    /\ tex' = txSetImage(tex, img)
    /\ call' = Call("SetImage", tex, ZP, img, ZR, ZP, txSetImageErr(img))
    /\ UNCHANGED <<guiVars, winVars>>

TexSetSubImage(dp, src, sr) ==
    /\ tex.gens < MaxGen
    /\ tex' = txSetSubImage(tex, dp, src, sr)
    /\ call' = Call("SetSubImage", tex, dp, src, sr, ZP, rgbaImage(src).err)
    /\ UNCHANGED <<guiVars, winVars>>

TexSetSize(size) ==
    /\ tex.gens < MaxGen
    /\ tex' = txSetSize(tex, size)
    /\ call' = Call("SetSize", tex, ZP, NoImage, ZR, size, FALSE)
    /\ UNCHANGED <<guiVars, winVars>>

TexDelete ==
    /\ tex' = txDelete(tex)
    /\ call' = Call("Delete", tex, ZP, NoImage, ZR, ZP, FALSE)
    /\ UNCHANGED <<guiVars, winVars>>

TexActivateFramebuffer ==
    /\ tex.gens < MaxGen
    /\ tex' = txActivateFramebuffer(tex)
    /\ call' = Call("ActivateFramebuffer", tex, ZP, NoImage, ZR, ZP, FALSE)
    /\ UNCHANGED <<guiVars, winVars>>

TexDeleteFramebuffer ==
    /\ tex' = txDeleteFramebuffer(tex)
    /\ call' = Call("DeleteFramebuffer", tex, ZP, NoImage, ZR, ZP, FALSE)
    /\ UNCHANGED <<guiVars, winVars>>

NextTex ==
    \/ \E texNo \in 0..1 : TexActivate(texNo)
    \/ \E img \in TexImages : TexSetImage(img)
    \/ \E a \in TexSubImgArgs : TexSetSubImage(a.dp, a.src, a.sr)
    \/ \E size \in TexSizes : TexSetSize(size)
    \/ TexDelete
    \/ TexActivateFramebuffer
    \/ TexDeleteFramebuffer

SpecTex == InitTex /\ [][NextTex]_vars

\* ------------------------------------------------------------------------
\* One call of SetImage or SetSubImage, over all its arguments
\* ------------------------------------------------------------------------
\* the textures the call is made on: new ones of every size, ones given an
\* image (packed RGBA, RGBA view, other format), the same after activation,
\* and activated ones whose pixels were all uploaded
PreFresh == {NewTexture(sz) : sz \in Sizes}
PreLoaded ==
    {txSetImage(NewTexture(ZP), img) :
        img \in {MkImage(TRUE, Rect(0, 0, MaxDim, MaxDim), 0),
                 MkImage(TRUE, Rect(0, 0, MaxDim, MaxDim), 1),
                 MkImage(FALSE, Rect(0, 0, MaxDim, MaxDim), 0)}}
PreActive == {txActivate(t, 0) : t \in PreFresh \cup PreLoaded}
PrePainted ==
    {txSetSubImage(t, ZP, MkImage(TRUE, Rect(0, 0, MaxDim, MaxDim), 0),
                   Rect(0, 0, MaxDim, MaxDim)) : t \in PreActive}
PreTextures == PreFresh \cup PreLoaded \cup PreActive \cup PrePainted

InitPix ==
    /\ tex \in PreTextures
    /\ call = NoCall
    /\ winTex = [w \in Windows |-> <<NewTexture(Pt(2, 2))>>]
    /\ glw = [w \in Windows |-> [destroyed |-> FALSE, size |-> Pt(2, 2)]]
    /\ Sz = [w \in Windows |-> Pt(2, 2)]
    /\ events = [w \in Windows |-> <<>>]
    /\ closeCleanFunc = [w \in Windows |-> FALSE]
    /\ closeReqFunc = [w \in Windows |-> FALSE]
    /\ quitting = FALSE
    /\ wl = [w \in Windows |-> [pc |-> "select", cur |-> 0, swaps |-> 0]]
    /\ cl = [c \in Clients |-> IdleClient]
    /\ mn = Idle
    /\ ctx = 0
    /\ offMain = {}
    /\ swapCtx = [w \in Windows |-> NoSwap]
    /\ closeLog = [w \in Windows |-> <<>>]
    /\ opsStarted = 0
    /\ resizes = 0
    /\ panicked = FALSE
    /\ Flag = [w \in Windows |-> {}]
    /\ vps = IdleScene.vps
    /\ wdg = IdleScene.wdg
    /\ gwin = IdleScene.win
    /\ behind = IdleScene.behind
    /\ vlog = NoLog

PixSetImage(img) ==
    /\ call.op = "none"
    /\ TexSetImage(img)

PixSetSubImage(dp, src, sr) ==
    /\ call.op = "none"
    /\ TexSetSubImage(dp, src, sr)

NextPix ==
    \/ \E img \in Images : PixSetImage(img)
    \/ \E dp \in Offsets, src \in Images, sr \in SubRects : PixSetSubImage(dp, src, sr)

SpecPix == InitPix /\ [][NextPix]_vars

\* C10: the GPU texture objects generated by a texture and not yet deleted are
\* exactly one when the texture is active and none when it is not, the
\* recorded handle is that live object while the texture is active, and two
\* objects are never live at once (the old one is deleted before its
\* replacement is generated).
C10_NoHandleLeak ==
    /\ Cardinality(tex.live) = (IF tex.init THEN 1 ELSE 0)
    /\ tex.init => tex.live = {tex.handle}
    /\ tex.peak <= 1
    /\ tex.gens - tex.dels = Cardinality(tex.live)

\* an active texture that replaced its GPU object: the first was deleted
C10_Witness ==
    /\ tex.init
    /\ tex.gens >= 2
    /\ tex.dels = tex.gens - 1
    /\ tex.fbuff # <<>>

\* ------------------------------------------------------------------------
\* Properties of one texture call
\* ------------------------------------------------------------------------
\* the pixels of the texture a call was made on, once they are allocated: the
\* contents of its GPU object, or those its activation allocates
PixBefore == txActivate(call.pre, 0).pix
\* the source rectangle moved so that its minimum corner lies on the offset,
\* clipped to the texture
AlignedRect == RectIntersect(RectAdd(call.sr, PtSub(call.dp, call.sr.Min)), txBounds(call.pre))
\* the source rectangle moved by the offset, clipped to the texture
TranslatedRect == RectIntersect(RectAdd(call.sr, call.dp), txBounds(call.pre))
\* every pixel of the texture outside rectangle r is as it was before the call
FrameOutside(r) ==
    tex.init =>
        /\ DOMAIN tex.pix = DOMAIN PixBefore
        /\ \A p \in DOMAIN tex.pix : ~PtIn(p, r) => tex.pix[p] = PixBefore[p]
\* every element of the source buffer that was handed to OpenGL is a pixel
\* inside the bounds of the source image
ReadsInBounds ==
    LET rgba == rgbaImage(call.src).rgba
    IN \A i \in subImageReads(call.pre, call.dp, call.src, call.sr) :
          /\ i >= 1
          /\ i <= Len(rgba.Pix)
          /\ PtIn(PixPoint(rgba, i), rgba.Rect)

\* C11 (as stated): SetSubImage changes only the texture pixels inside
\* intersect(translate(sourceRect, offset), textureBounds), and reads no
\* source pixel outside the bounds of the source image.
C11_ClipTranslatedByOffset ==
    call.op = "SetSubImage" => FrameOutside(TranslatedRect) /\ ReadsInBounds

\* C11 (amended): SetSubImage changes only the texture pixels inside
\* intersect(translate(sourceRect, offset - sourceRect.Min), textureBounds),
\* the source rectangle placed with its minimum corner on the offset; every
\* other texture pixel keeps its value, the size of the texture is unchanged,
\* and no source pixel outside the bounds of the source image is read.
C11_ClipAlignedAtOffset ==
    call.op = "SetSubImage" =>
        /\ FrameOutside(AlignedRect)
        /\ tex.size = call.pre.size
        /\ ReadsInBounds

\* an upload from a source rectangle that does not start at the origin into
\* an active texture whose pixels were all written: one pixel changed, one
\* written pixel outside the rectangle was kept
C11_Witness ==
    /\ call.op = "SetSubImage"
    /\ call.pre.init
    /\ call.sr.Min # ZP
    /\ ~RectEmpty(AlignedRect)
    /\ \E p \in DOMAIN tex.pix : PtIn(p, AlignedRect) /\ tex.pix[p] # call.pre.pix[p]
    /\ \E p \in DOMAIN tex.pix :
          ~PtIn(p, AlignedRect) /\ tex.pix[p] # Undef /\ tex.pix[p] = call.pre.pix[p]

\* the pixel of the source image of the call at point q, as an RGBA colour
SrcPixel(q) ==
    IF call.src.rgba THEN At(call.src, q.X, q.Y) ELSE toRGBA(At(call.src, q.X, q.Y))
\* the clipped destination rectangle: the part of the source rectangle inside
\* the source image, placed with the rectangle's minimum corner on the offset
\* and clipped to the texture
ClippedDest ==
    RectIntersect(RectAdd(RectIntersect(call.sr, call.src.Rect),
                          PtSub(call.dp, call.sr.Min)),
                  txBounds(call.pre))

\* C12: after a successful SetSubImage every texture pixel inside the clipped
\* destination rectangle equals the source pixel aligned with it (the source
\* rectangle's minimum corner aligned with the offset), on the bulk path and
\* on the row-by-row path alike.
C12_SubImageContent ==
    (call.op = "SetSubImage" /\ ~call.err) =>
        \A p \in RectPoints(ClippedDest) :
            /\ tex.init
            /\ p \in DOMAIN tex.pix
            /\ tex.pix[p] = SrcPixel(Pt(p.X - call.dp.X + call.sr.Min.X,
                                        p.Y - call.dp.Y + call.sr.Min.Y))

\* C13: SetImage either fails or stores a pixel buffer whose row stride is
\* exactly width * 4; it never succeeds with a buffer of another stride.
C13_PackedStride ==
    call.op = "SetImage" =>
        \/ call.err
        \/ /\ txImage(tex) # <<>>
           /\ txImage(tex)[1].Stride = RectSize(txImage(tex)[1].Rect).X * 4

\* C14: SetImage(img) followed by Image() yields an RGBA buffer of the size of
\* img whose pixel at each position is the pixel of img at the corresponding
\* position (relative to the minimum corner of the bounds), as an RGBA colour.
C14_SetImageRoundTrip ==
    (call.op = "SetImage" /\ ~call.err) =>
        /\ txImage(tex) # <<>>
        /\ txImage(tex)[1].rgba
        /\ RectSize(txImage(tex)[1].Rect) = RectSize(call.src.Rect)
        /\ \A p \in RectPoints(Rect(0, 0, RectSize(call.src.Rect).X, RectSize(call.src.Rect).Y)) :
              At(txImage(tex)[1], txImage(tex)[1].Rect.Min.X + p.X,
                                  txImage(tex)[1].Rect.Min.Y + p.Y)
                = SrcPixel(Pt(call.src.Rect.Min.X + p.X, call.src.Rect.Min.Y + p.Y))

\* C15: SetSize to a size other than the current one leaves the texture with
\* the new size and without cached image, active exactly if it was active;
\* when it was active its GPU object was deleted and a new one allocated at
\* the new size, none of whose pixels is written.
C15_SetSizeNew ==
    (call.op = "SetSize" /\ call.size # call.pre.size) =>
        /\ tex.size = call.size
        /\ txImage(tex) = <<>>
        /\ tex.init = call.pre.init
        /\ call.pre.init =>
              /\ tex.dels = call.pre.dels + 1
              /\ tex.gens = call.pre.gens + 1
              /\ tex.live = {tex.handle}
              /\ DOMAIN tex.pix = RectPoints(Rect(0, 0, call.size.X, call.size.Y))
              /\ \A p \in DOMAIN tex.pix : tex.pix[p] = Undef
        /\ ~call.pre.init =>
              /\ tex.dels = call.pre.dels
              /\ tex.gens = call.pre.gens
              /\ tex.pix = NoPix

\* an active texture with an image and written pixels was given another,
\* non-empty size
C15_Witness ==
    /\ call.op = "SetSize"
    /\ call.size # call.pre.size
    /\ call.pre.init
    /\ call.pre.img # <<>>
    /\ \E p \in DOMAIN call.pre.pix : call.pre.pix[p] # Undef
    /\ DOMAIN tex.pix # {}

\* C16: SetSize with the current size changes nothing: flag, handle, cached
\* image, size and GPU object are as before, nothing is deleted or allocated.
C16_SetSizeSame ==
    (call.op = "SetSize" /\ call.size = call.pre.size) => tex = call.pre

\* SetSize with its own size on an active texture that has an image
C16_Witness ==
    /\ call.op = "SetSize"
    /\ call.size = call.pre.size
    /\ call.size # ZP
    /\ call.pre.init
    /\ call.pre.img # <<>>

\* C17: Delete on an inactive texture deletes nothing and changes nothing;
\* Delete on an active texture deletes its GPU object once and leaves it
\* inactive, size and cached image as they were; so a second Delete in a row
\* leaves the state of the first, with one deletion in all.
C17_DeleteIdempotent ==
    call.op = "Delete" =>
        /\ ~tex.init
        /\ tex.live = {}
        /\ ~call.pre.init => tex = call.pre
        /\ call.pre.init =>
              /\ tex.dels = call.pre.dels + 1
              /\ tex.gens = call.pre.gens
              /\ tex.pix = NoPix
              /\ tex.size = call.pre.size
              /\ tex.img = call.pre.img

\* Delete on a texture that was activated and deleted before: the second
\* Delete in a row
C17_Witness ==
    /\ call.op = "Delete"
    /\ ~call.pre.init
    /\ call.pre.dels >= 1
    /\ call.pre.gens = call.pre.dels
    /\ tex.dels = call.pre.dels

\* C18: SetSubImage whose clipped destination rectangle is empty returns no
\* error and changes nothing: no pixel, no GPU object, an inactive texture
\* stays inactive; with a non-empty rectangle an inactive texture is
\* activated, bound to unit 0, and the pixels of the rectangle are written.
C18_EmptyClipNoEffect ==
    call.op = "SetSubImage" =>
        /\ ~call.err
        /\ RectEmpty(ClippedDest) => tex = call.pre
        /\ ~RectEmpty(ClippedDest) =>
              /\ tex.init
              /\ tex.unit = 0
              /\ ~call.pre.init =>
                    /\ tex.gens = call.pre.gens + 1
                    /\ tex.live = {tex.handle}
              /\ call.pre.init =>
                    /\ tex.gens = call.pre.gens
                    /\ tex.handle = call.pre.handle
              /\ \A p \in RectPoints(ClippedDest) : tex.pix[p] # Undef

\* an upload that missed an inactive texture of non-empty size with a source
\* rectangle that has pixels: the rectangle landed outside the texture
C18_Witness ==
    /\ call.op = "SetSubImage"
    /\ ~call.pre.init
    /\ call.pre.size.X > 0
    /\ call.pre.size.Y > 0
    /\ ~RectEmpty(RectIntersect(call.sr, call.src.Rect))
    /\ RectEmpty(ClippedDest)
    /\ ~tex.init

\* an upload that hit an inactive texture and activated it
C18_WitnessActivated ==
    /\ call.op = "SetSubImage"
    /\ ~call.pre.init
    /\ ~RectEmpty(ClippedDest)
    /\ tex.init

\* C19: the texture has a framebuffer only after an ActivateFramebuffer made
\* it, a later ActivateFramebuffer reuses it, DeleteFramebuffer removes it,
\* and Delete of the texture removes it as well: a texture that is not active
\* has no framebuffer left.
C19_FramebufferLifecycle ==
    /\ ~tex.init => tex.fbuff = <<>>
    /\ Len(tex.fbuff) <= 1
    /\ (call.op = "ActivateFramebuffer" /\ call.pre.fbuff # <<>>) => tex.fbuff = call.pre.fbuff
    /\ call.op = "ActivateFramebuffer" => tex.fbuff # <<>>
    /\ call.op = "DeleteFramebuffer" => tex.fbuff = <<>>
    /\ call.op \notin {"ActivateFramebuffer", "DeleteFramebuffer"} =>
          (tex.fbuff # <<>> => call.pre.fbuff # <<>>)
    /\ call.op = "Delete" => tex.fbuff = <<>>


\* ------------------------------------------------------------------------
\* Window operations: the callers
\* ------------------------------------------------------------------------
Running == ~panicked

\* "Draw" stands for the three Drawer wrappers Draw, DrawUniform and Fill;
\* which of them it is shows in the function the main thread runs
ClientOps == {"RunOnWin", "GoRunOnWin", "Publish", "PublishTex", "Draw",
              "SetWinTexSubImage", "Close", "CloseReq"}
DrawKinds == {"draw", "drawUniform", "fillRect"}

\* the first blocking point of each operation
EntryPc(op) ==
    CASE op \in {"RunOnWin", "GoRunOnWin"} -> "rq_send"
      [] op = "Publish" -> "pub_send"
      [] op \in {"PublishTex", "Draw", "SetWinTexSubImage"} -> "main_send"
      [] op = "Close" -> "close_send"
      [] op = "CloseReq" -> "cr_check"

\* the function an operation hands to RunOnMain
MainFn(op) ==
    CASE op = "PublishTex" -> "blit"
      [] op = "Draw" -> "draw"
      [] op = "SetWinTexSubImage" -> "subimg"
      [] op \in {"Close", "CloseReq"} -> "destroy"

\* where a caller continues when its RunOnMain returned
AfterMain(c) ==
    CASE cl[c].op = "PublishTex" -> "pub_send"
      [] cl[c].op \in {"Close", "CloseReq"} -> cl[c].after
      [] OTHER -> "ret"

\* windows are interchangeable: the first one that is used is window 1
FirstWindow(w) == (opsStarted = 0 /\ resizes = 0) => w = 1

\* a GPU call issued by a thread: only the ones off the main thread are kept
GpuCall(thread, glCall, w) ==
    IF thread = "main" THEN offMain ELSE offMain \cup {[call |-> glCall, win |-> w]}

\* a goroutine calls an operation of window w
Start(c, op, w) ==
    /\ Running
    /\ opsStarted < MaxOps
    /\ FirstWindow(w)
    /\ cl[c].pc \in {"idle", "ret"}
    /\ \A d \in Clients : d < c => cl[d].pc # "idle"
    /\ cl' = [cl EXCEPT ![c] = [pc |-> EntryPc(op), op |-> op, win |-> w,
                                after |-> "ret", runs |-> 0, fn |-> "plain"]]
    /\ opsStarted' = opsStarted + 1
    /\ UNCHANGED <<guiVars, tex, call, winTex, glw, Sz, events, closeCleanFunc, closeReqFunc, quitting,
                   wl, mn, ctx, offMain, swapCtx, closeLog, resizes, panicked>>

SetCloseReqFunc(w) ==
    /\ Running
    /\ opsStarted < MaxOps
    /\ FirstWindow(w)
    /\ ~closeReqFunc[w]
    /\ closeReqFunc' = [closeReqFunc EXCEPT ![w] = TRUE]
    /\ opsStarted' = opsStarted + 1
    /\ UNCHANGED <<guiVars, tex, call, winTex, glw, Sz, events, closeCleanFunc, quitting, wl, cl, mn,
                   ctx, offMain, swapCtx, closeLog, resizes, panicked>>

SetCloseCleanFunc(w) ==
    /\ Running
    /\ opsStarted < MaxOps
    /\ FirstWindow(w)
    /\ ~closeCleanFunc[w]
    /\ closeCleanFunc' = [closeCleanFunc EXCEPT ![w] = TRUE]
    /\ opsStarted' = opsStarted + 1
    /\ UNCHANGED <<guiVars, tex, call, winTex, glw, Sz, events, closeReqFunc, quitting, wl, cl, mn,
                   ctx, offMain, swapCtx, closeLog, resizes, panicked>>

\* the application starts quitting
AppQuit ==
    /\ Running
    /\ opsStarted < MaxOps
    /\ ~quitting
    /\ quitting' = TRUE
    /\ opsStarted' = opsStarted + 1
    /\ UNCHANGED <<guiVars, tex, call, winTex, glw, Sz, events, closeCleanFunc, closeReqFunc, wl, cl, mn,
                   ctx, offMain, swapCtx, closeLog, resizes, panicked>>

\* CloseReq: if theApp.quitting { w.Close() }
CloseReqQuitting(c) ==
    /\ Running
    /\ cl[c].pc = "cr_check"
    /\ cl' = [cl EXCEPT ![c] = IF quitting
                               THEN [@ EXCEPT !.pc = "close_send", !.after = "cr_hook"]
                               ELSE [@ EXCEPT !.pc = "cr_hook"]]
    /\ UNCHANGED <<guiVars, tex, call, winTex, glw, Sz, events, closeCleanFunc, closeReqFunc, quitting,
                   wl, mn, ctx, offMain, swapCtx, closeLog, opsStarted, resizes, panicked>>

\* CloseReq: if w.closeReqFunc != nil { w.closeReqFunc(w) } else { w.Close() }
CloseReqHook(c) ==
    /\ Running
    /\ cl[c].pc = "cr_hook"
    /\ cl' = [cl EXCEPT ![c] = IF closeReqFunc[cl[c].win]
                               THEN [@ EXCEPT !.pc = "ret", !.after = "ret"]
                               ELSE [@ EXCEPT !.pc = "close_send", !.after = "ret"]]
    /\ UNCHANGED <<guiVars, tex, call, winTex, glw, Sz, events, closeCleanFunc, closeReqFunc, quitting,
                   wl, mn, ctx, offMain, swapCtx, closeLog, opsStarted, resizes, panicked>>

sendWindowEvent(q, act) == Append(q, act)

\* the statement of Close that follows each of its statements
CloseNext_TexFirst(pc) ==
    CASE pc = "close_send" -> "texDel"
      [] pc = "texDel" -> "texNil"
      [] pc = "texNil" -> "clean"
      [] pc = "clean" -> "event"
      [] pc = "event" -> "main_send"

CloseNext(pc) ==
    CASE pc = "close_send" -> "clean"
      [] pc = "clean" -> "event"
      [] pc = "event" -> "texDel"
      [] pc = "texDel" -> "texNil"
      [] pc = "texNil" -> "main_send"

\* Close: w.CloseClean()
CloseClean(c) ==
    LET w == cl[c].win IN
    /\ Running
    /\ cl[c].pc = "clean"
    /\ closeLog' = IF closeCleanFunc[w]
                   THEN [closeLog EXCEPT ![w] = Append(@, "hook")]
                   ELSE closeLog
    /\ cl' = [cl EXCEPT ![c].pc = CloseNext("clean")]
    /\ UNCHANGED <<guiVars, tex, call, winTex, glw, Sz, events, closeCleanFunc, closeReqFunc, quitting,
                   wl, mn, ctx, offMain, swapCtx, opsStarted, resizes, panicked>>

\* Close: w.sendWindowEvent(window.Close)
CloseSendEvent(c) ==
    LET w == cl[c].win IN
    /\ Running
    /\ cl[c].pc = "event"
    /\ events' = [events EXCEPT ![w] = sendWindowEvent(@, "Close")]
    /\ closeLog' = [closeLog EXCEPT ![w] = Append(@, "event")]
    /\ cl' = [cl EXCEPT ![c].pc = CloseNext("event")]
    /\ UNCHANGED <<guiVars, tex, call, winTex, glw, Sz, closeCleanFunc, closeReqFunc, quitting,
                   wl, mn, ctx, offMain, swapCtx, opsStarted, resizes, panicked>>

\* Close: if w.winTex != nil { w.winTex.Delete() ...: the GPU call is issued
\* by the goroutine that runs Close
CloseTexDelete(c) ==
    LET w == cl[c].win IN
    /\ Running
    /\ cl[c].pc = "texDel"
    /\ IF winTex[w] = <<>>
       THEN /\ cl' = [cl EXCEPT ![c].pc = CloseNext("texNil")]
            /\ UNCHANGED <<winTex, offMain, closeLog>>
       ELSE /\ winTex' = [winTex EXCEPT ![w] = <<txDelete(winTex[w][1])>>]
            /\ offMain' = IF winTex[w][1].init
                          THEN GpuCall("caller", "DeleteTextures", w)
                          ELSE offMain
            /\ closeLog' = [closeLog EXCEPT ![w] = Append(@, "tex")]
            /\ cl' = [cl EXCEPT ![c].pc = CloseNext("texDel")]
    /\ UNCHANGED <<guiVars, tex, call, glw, Sz, events, closeCleanFunc, closeReqFunc, quitting,
                   wl, mn, ctx, swapCtx, opsStarted, resizes, panicked>>

\* Close: ... w.winTex = nil }
CloseTexNil(c) ==
    LET w == cl[c].win IN
    /\ Running
    /\ cl[c].pc = "texNil"
    /\ winTex' = [winTex EXCEPT ![w] = <<>>]
    /\ cl' = [cl EXCEPT ![c].pc = CloseNext("texNil")]
    /\ UNCHANGED <<guiVars, tex, call, glw, Sz, events, closeCleanFunc, closeReqFunc, quitting,
                   wl, mn, ctx, offMain, swapCtx, closeLog, opsStarted, resizes, panicked>>

\* ------------------------------------------------------------------------
\* winLoop: the window's own goroutine.  The channels runQueue, publish,
\* publishDone, winClose and each call's done channel are rendezvous
\* channels: a send and its receive are one step of both goroutines.
\* wl[w].swaps counts the swaps run for the publish request being served.
\* ------------------------------------------------------------------------
AtSelect == [pc |-> "select", cur |-> 0, swaps |-> 0]

\* case <-w.winClose: break, without the label: the loop goes on
WinRecvClose_NoBreak(w, c) ==
    /\ Running
    /\ wl[w].pc = "select"
    /\ cl[c].pc = "close_send" /\ cl[c].win = w
    /\ wl' = [wl EXCEPT ![w] = AtSelect]
    /\ cl' = [cl EXCEPT ![c].pc = CloseNext("close_send")]
    /\ closeLog' = [closeLog EXCEPT ![w] = Append(@, "stop")]
    /\ UNCHANGED <<guiVars, tex, call, winTex, glw, Sz, events, closeCleanFunc, closeReqFunc, quitting,
                   mn, ctx, offMain, swapCtx, opsStarted, resizes, panicked>>

\* case <-w.winClose: break outer, receiving Close's w.winClose <- struct{}{}
WinRecvClose(w, c) ==
    /\ Running
    /\ wl[w].pc = "select"
    /\ cl[c].pc = "close_send" /\ cl[c].win = w
    /\ wl' = [wl EXCEPT ![w] = [pc |-> "exited", cur |-> 0, swaps |-> 0]]
    /\ cl' = [cl EXCEPT ![c].pc = CloseNext("close_send")]
    /\ closeLog' = [closeLog EXCEPT ![w] = Append(@, "stop")]
    /\ UNCHANGED <<guiVars, tex, call, winTex, glw, Sz, events, closeCleanFunc, closeReqFunc, quitting,
                   mn, ctx, offMain, swapCtx, opsStarted, resizes, panicked>>

\* case f := <-w.runQueue, receiving the send of RunOnWin or of the goroutine
\* of GoRunOnWin
WinRecvRun(w, c) ==
    /\ Running
    /\ wl[w].pc = "select"
    /\ cl[c].pc = "rq_send" /\ cl[c].win = w
    /\ wl' = [wl EXCEPT ![w] = [pc |-> "runF", cur |-> c, swaps |-> 0]]
    /\ cl' = [cl EXCEPT ![c].pc = "rq_wait"]
    /\ UNCHANGED <<guiVars, tex, call, winTex, glw, Sz, events, closeCleanFunc, closeReqFunc, quitting,
                   mn, ctx, offMain, swapCtx, closeLog, opsStarted, resizes, panicked>>

\* where the window thread is while a function it runs calls RunOnWin
\* (w.runQueue <- ...) or Publish (w.publish <- ...) on its own window
InnerPc(fn) == IF fn = "RunOnWin" THEN "inner_rq_send" ELSE "inner_pub_send"

\* the done signal is sent and f.f() is not run
WinRunF_SignalOnly(w) ==
    LET c == wl[w].cur IN
    /\ Running
    /\ wl[w].pc = "runF"
    /\ IF cl[c].op = "RunOnWin"
       THEN /\ cl' = cl
            /\ wl' = [wl EXCEPT ![w].pc = "sendDone"]
       ELSE /\ cl' = [cl EXCEPT ![c].pc = "ret"]
            /\ wl' = [wl EXCEPT ![w] = AtSelect]
    /\ UNCHANGED <<guiVars, tex, call, winTex, glw, Sz, events, closeCleanFunc, closeReqFunc, quitting,
                   mn, ctx, offMain, swapCtx, closeLog, opsStarted, resizes, panicked>>

\* the function is run on the window thread and returns to winLoop's select
\* at once, as if its calls were made elsewhere
WinRunF_Detached(w) ==
    LET c == wl[w].cur IN
    /\ Running
    /\ wl[w].pc = "runF"
    /\ IF cl[c].op = "RunOnWin"
       THEN /\ cl' = [cl EXCEPT ![c].runs = @ + 1]
            /\ wl' = [wl EXCEPT ![w].pc = "sendDone"]
       ELSE /\ cl' = [cl EXCEPT ![c].runs = @ + 1, ![c].pc = "ret"]
            /\ wl' = [wl EXCEPT ![w] = AtSelect]
    /\ UNCHANGED <<guiVars, tex, call, winTex, glw, Sz, events, closeCleanFunc, closeReqFunc, quitting,
                   mn, ctx, offMain, swapCtx, closeLog, opsStarted, resizes, panicked>>

\* f.f(); if f.done != nil { ... }: GoRunOnWin passes a nil done channel.
\* A function that calls RunOnWin or Publish of this window makes the call
\* on the window thread, which then is at the send of that call.
WinRunF(w) ==
    LET c == wl[w].cur IN
    /\ Running
    /\ wl[w].pc = "runF"
    /\ IF cl[c].fn # "plain"
       THEN /\ cl' = [cl EXCEPT ![c].runs = @ + 1,
                                ![c].pc = IF cl[c].op = "RunOnWin" THEN @ ELSE "ret"]
            /\ wl' = [wl EXCEPT ![w].pc = InnerPc(cl[c].fn)]
       ELSE IF cl[c].op = "RunOnWin"
       THEN /\ cl' = [cl EXCEPT ![c].runs = @ + 1]
            /\ wl' = [wl EXCEPT ![w].pc = "sendDone"]
       ELSE /\ cl' = [cl EXCEPT ![c].runs = @ + 1, ![c].pc = "ret"]
            /\ wl' = [wl EXCEPT ![w] = AtSelect]
    /\ UNCHANGED <<guiVars, tex, call, winTex, glw, Sz, events, closeCleanFunc, closeReqFunc, quitting,
                   mn, ctx, offMain, swapCtx, closeLog, opsStarted, resizes, panicked>>

\* f.done <- true, received by <-done of RunOnWin
WinSendDone(w) ==
    LET c == wl[w].cur IN
    /\ Running
    /\ wl[w].pc = "sendDone"
    /\ cl[c].pc = "rq_wait"
    /\ cl' = [cl EXCEPT ![c].pc = "ret"]
    /\ wl' = [wl EXCEPT ![w] = AtSelect]
    /\ UNCHANGED <<guiVars, tex, call, winTex, glw, Sz, events, closeCleanFunc, closeReqFunc, quitting,
                   mn, ctx, offMain, swapCtx, closeLog, opsStarted, resizes, panicked>>

\* the publish request is answered without running the swap
WinRecvPublish_NoSwap(w, c) ==
    /\ Running
    /\ wl[w].pc = "select"
    /\ cl[c].pc = "pub_send" /\ cl[c].win = w
    /\ wl' = [wl EXCEPT ![w] = [pc |-> "pubDone", cur |-> c, swaps |-> 0]]
    /\ cl' = [cl EXCEPT ![c].pc = "pub_wait"]
    /\ UNCHANGED <<guiVars, tex, call, winTex, glw, Sz, events, closeCleanFunc, closeReqFunc, quitting,
                   mn, ctx, offMain, swapCtx, closeLog, opsStarted, resizes, panicked>>

\* case <-w.publish, receiving Publish's w.publish <- struct{}{}; the loop
\* then calls theApp.RunOnMain
WinRecvPublish(w, c) ==
    /\ Running
    /\ wl[w].pc = "select"
    /\ cl[c].pc = "pub_send" /\ cl[c].win = w
    /\ wl' = [wl EXCEPT ![w] = [pc |-> "main_send", cur |-> c, swaps |-> 0]]
    /\ cl' = [cl EXCEPT ![c].pc = "pub_wait"]
    /\ UNCHANGED <<guiVars, tex, call, winTex, glw, Sz, events, closeCleanFunc, closeReqFunc, quitting,
                   mn, ctx, offMain, swapCtx, closeLog, opsStarted, resizes, panicked>>

\* w.publishDone <- struct{}{}, received by <-w.publishDone of a Publish call
\* on this window that is waiting there
WinSendPublishDone(w, c) ==
    /\ Running
    /\ wl[w].pc = "pubDone"
    /\ cl[c].pc = "pub_wait" /\ cl[c].win = w
    /\ cl' = [cl EXCEPT ![c].pc = "ret"]
    /\ wl' = [wl EXCEPT ![w] = AtSelect]
    /\ UNCHANGED <<guiVars, tex, call, winTex, glw, Sz, events, closeCleanFunc, closeReqFunc, quitting,
                   mn, ctx, offMain, swapCtx, closeLog, opsStarted, resizes, panicked>>

\* ------------------------------------------------------------------------
\* The main thread: theApp.RunOnMain(f) hands f to the one main thread and
\* blocks its caller until f has run there
\* ------------------------------------------------------------------------
\* arguments of SetWinTexSubImage: a 1x1 source placed inside or outside the
\* backing texture
WinSubImgArgs == {[dp |-> Pt(0, 0), src |-> MkImage(TRUE, Rect(0, 0, 1, 1), 0),
                   sr |-> Rect(0, 0, 1, 1)],
                  [dp |-> Pt(MaxDim, MaxDim), src |-> MkImage(TRUE, Rect(0, 0, 1, 1), 0),
                   sr |-> Rect(0, 0, 1, 1)]}

\* RunOnMain called by a caller goroutine: the main thread takes the function
MainAcceptClient(c) ==
    /\ Running
    /\ mn.pc = "idle"
    /\ cl[c].pc = "main_send"
    /\ mn' = [pc |-> "run", fn |-> MainFn(cl[c].op), win |-> cl[c].win, from |-> <<"c", c>>]
    /\ cl' = [cl EXCEPT ![c].pc = "main_wait"]
    /\ UNCHANGED <<guiVars, tex, call, winTex, glw, Sz, events, closeCleanFunc, closeReqFunc, quitting,
                   wl, ctx, offMain, swapCtx, closeLog, opsStarted, resizes, panicked>>

\* RunOnMain called by winLoop for a publish request
MainAcceptWin(w) ==
    /\ Running
    /\ mn.pc = "idle"
    /\ wl[w].pc = "main_send"
    /\ mn' = [pc |-> "run", fn |-> "swap", win |-> w, from |-> <<"w", w>>]
    /\ wl' = [wl EXCEPT ![w].pc = "main_wait"]
    /\ UNCHANGED <<guiVars, tex, call, winTex, glw, Sz, events, closeCleanFunc, closeReqFunc, quitting,
                   cl, ctx, offMain, swapCtx, closeLog, opsStarted, resizes, panicked>>

\* the swap function without w.Activate()
MainActivate_NotForSwap ==
    /\ Running
    /\ mn.pc = "run"
    /\ ctx' = IF mn.fn \in {"destroy", "swap"} THEN ctx ELSE mn.win
    /\ mn' = [mn EXCEPT !.pc = "body"]
    /\ UNCHANGED <<guiVars, tex, call, winTex, glw, Sz, events, closeCleanFunc, closeReqFunc, quitting,
                   wl, cl, offMain, swapCtx, closeLog, opsStarted, resizes, panicked>>

\* w.Activate(), the first statement of every function handed to RunOnMain
\* but the one of Close
MainActivate ==
    /\ Running
    /\ mn.pc = "run"
    /\ ctx' = IF mn.fn = "destroy" THEN ctx ELSE mn.win
    /\ offMain' = IF mn.fn = "destroy" THEN offMain
                  ELSE GpuCall("main", "MakeContextCurrent", mn.win)
    /\ mn' = [mn EXCEPT !.pc = "body"]
    /\ UNCHANGED <<guiVars, tex, call, winTex, glw, Sz, events, closeCleanFunc, closeReqFunc, quitting,
                   wl, cl, swapCtx, closeLog, opsStarted, resizes, panicked>>

\* winLoop's function: w.glw.SwapBuffers()
MainSwap ==
    LET w == mn.win IN
    /\ Running
    /\ mn.pc = "body" /\ mn.fn = "swap"
    /\ swapCtx' = [swapCtx EXCEPT ![w] = ctx]
    /\ wl' = [wl EXCEPT ![w].swaps = @ + 1]
    /\ offMain' = GpuCall("main", "SwapBuffers", w)
    /\ mn' = [mn EXCEPT !.pc = "signal"]
    /\ UNCHANGED <<guiVars, tex, call, winTex, glw, Sz, events, closeCleanFunc, closeReqFunc, quitting,
                   cl, ctx, closeLog, opsStarted, resizes, panicked>>

\* the functions of Draw, DrawUniform and Fill: w.Size(); theApp.draw(...),
\* theApp.drawUniform(...), theApp.fillRect(...)
MainDraw(kind) ==
    /\ Running
    /\ mn.pc = "body" /\ mn.fn = "draw"
    /\ offMain' = GpuCall("main", kind, mn.win)
    /\ mn' = [mn EXCEPT !.pc = "signal"]
    /\ UNCHANGED <<guiVars, tex, call, winTex, glw, Sz, events, closeCleanFunc, closeReqFunc, quitting,
                   wl, cl, ctx, swapCtx, closeLog, opsStarted, resizes, panicked>>

\* the function of SetWinTexSubImage: wt := w.winTex; wt.SetSubImage(dp, src, sr)
MainSubImage(a) ==
    LET w == mn.win IN
    /\ Running
    /\ mn.pc = "body" /\ mn.fn = "subimg"
    /\ IF winTex[w] = <<>>
       THEN /\ panicked' = TRUE
            /\ UNCHANGED <<winTex, offMain, mn>>
       ELSE /\ winTex' = [winTex EXCEPT ![w] = <<txSetSubImage(winTex[w][1], a.dp, a.src, a.sr)>>]
            /\ offMain' = IF RectEmpty(subImageDr(winTex[w][1], a.dp, a.src, a.sr))
                          THEN offMain
                          ELSE GpuCall("main", "TexSubImage2D", w)
            /\ mn' = [mn EXCEPT !.pc = "signal"]
            /\ UNCHANGED panicked
    /\ UNCHANGED <<guiVars, tex, call, glw, Sz, events, closeCleanFunc, closeReqFunc, quitting,
                   wl, cl, ctx, swapCtx, closeLog, opsStarted, resizes>>

\* the function of PublishTex: w.Copy(image.ZP, w.winTex, w.winTex.Bounds(), ...)
\* is drawer.Copy(w, ...), which calls w.Draw, which calls theApp.RunOnMain
\* from the main thread itself: the main thread waits for the main thread
MainBlit ==
    LET w == mn.win IN
    /\ Running
    /\ mn.pc = "body" /\ mn.fn = "blit"
    /\ IF winTex[w] = <<>>
       THEN /\ panicked' = TRUE
            /\ UNCHANGED mn
       ELSE /\ mn' = [mn EXCEPT !.pc = "nested"]
            /\ UNCHANGED panicked
    /\ UNCHANGED <<guiVars, tex, call, winTex, glw, Sz, events, closeCleanFunc, closeReqFunc, quitting,
                   wl, cl, ctx, offMain, swapCtx, closeLog, opsStarted, resizes>>

\* the function of Close: w.glw.Destroy()
MainDestroy ==
    LET w == mn.win IN
    /\ Running
    /\ mn.pc = "body" /\ mn.fn = "destroy"
    /\ glw' = [glw EXCEPT ![w].destroyed = TRUE]
    /\ ctx' = IF ctx = w THEN 0 ELSE ctx
    /\ offMain' = GpuCall("main", "Destroy", w)
    /\ closeLog' = [closeLog EXCEPT ![w] = Append(@, "destroy")]
    /\ mn' = [mn EXCEPT !.pc = "signal"]
    /\ UNCHANGED <<guiVars, tex, call, winTex, Sz, events, closeCleanFunc, closeReqFunc, quitting,
                   wl, cl, swapCtx, opsStarted, resizes, panicked>>

\* the function returned: RunOnMain returns to the caller that handed it over
MainSignal ==
    /\ Running
    /\ mn.pc = "signal"
    /\ \/ /\ mn.from[1] = "c"
          /\ cl[mn.from[2]].pc = "main_wait"
          /\ cl' = [cl EXCEPT ![mn.from[2]].pc = AfterMain(mn.from[2])]
          /\ UNCHANGED wl
       \/ /\ mn.from[1] = "w"
          /\ wl[mn.from[2]].pc = "main_wait"
          /\ wl' = [wl EXCEPT ![mn.from[2]].pc = "pubDone"]
          /\ UNCHANGED cl
       \/ /\ mn.from[1] = "none"
          /\ UNCHANGED <<wl, cl>>
    /\ mn' = Idle
    /\ UNCHANGED <<guiVars, tex, call, winTex, glw, Sz, events, closeCleanFunc, closeReqFunc, quitting,
                   ctx, offMain, swapCtx, closeLog, opsStarted, resizes, panicked>>

\* the resize callback, delivered on the main thread while it waits for events
winResized(w, size) ==
    /\ Running
    /\ mn.pc = "idle"
    /\ ~glw[w].destroyed
    /\ resizes < MaxResize
    /\ FirstWindow(w)
    /\ size # glw[w].size
    /\ resizes' = resizes + 1
    /\ glw' = [glw EXCEPT ![w].size = size]
    /\ Sz' = [Sz EXCEPT ![w] = size]
    /\ IF winTex[w] = <<>>
       THEN /\ panicked' = TRUE
            /\ UNCHANGED <<winTex, offMain, events>>
       ELSE /\ winTex' = [winTex EXCEPT ![w] = <<txSetSize(winTex[w][1], size)>>]
            /\ offMain' = IF winTex[w][1].init
                          THEN GpuCall("main", "TexImage2D", w)
                          ELSE offMain
            /\ events' = [events EXCEPT ![w] = sendWindowEvent(@, "Resize")]
            /\ UNCHANGED panicked
    /\ UNCHANGED <<guiVars, tex, call, closeCleanFunc, closeReqFunc, quitting, wl, cl, mn, ctx,
                   swapCtx, closeLog, opsStarted>>

NextWin ==
    \/ \E c \in Clients, op \in ClientOps, w \in Windows : Start(c, op, w)
    \/ \E w \in Windows : SetCloseReqFunc(w)
    \/ \E w \in Windows : SetCloseCleanFunc(w)
    \/ AppQuit
    \/ \E c \in Clients : CloseReqQuitting(c)
    \/ \E c \in Clients : CloseReqHook(c)
    \/ \E c \in Clients : CloseClean(c)
    \/ \E c \in Clients : CloseSendEvent(c)
    \/ \E c \in Clients : CloseTexDelete(c)
    \/ \E c \in Clients : CloseTexNil(c)
    \/ \E w \in Windows, c \in Clients : WinRecvClose(w, c)
    \/ \E w \in Windows, c \in Clients : WinRecvRun(w, c)
    \/ \E w \in Windows : WinRunF(w)
    \/ \E w \in Windows : WinSendDone(w)
    \/ \E w \in Windows, c \in Clients : WinRecvPublish(w, c)
    \/ \E w \in Windows, c \in Clients : WinSendPublishDone(w, c)
    \/ \E c \in Clients : MainAcceptClient(c)
    \/ \E w \in Windows : MainAcceptWin(w)
    \/ MainActivate
    \/ MainSwap
    \/ \E kind \in DrawKinds : MainDraw(kind)
    \/ \E a \in WinSubImgArgs : MainSubImage(a)
    \/ MainBlit
    \/ MainDestroy
    \/ MainSignal
    \/ \E w \in Windows, size \in WinSizes : winResized(w, size)

SpecWin == InitWin /\ [][NextWin]_vars


\* ------------------------------------------------------------------------
\* Properties of the window session
\* ------------------------------------------------------------------------
IsPrefix(s, t) == Len(s) <= Len(t) /\ \A i \in 1..Len(s) : s[i] = t[i]
Count(s, x) == Cardinality({i \in 1..Len(s) : s[i] = x})

\* the window thread has taken the stop signal of Close
Stopped(w) == Len(closeLog[w]) > 0
\* the backing texture was released, the platform window was destroyed
Released(w) == Count(closeLog[w], "tex") > 0 \/ winTex[w] = <<>>
Destroyed(w) == glw[w].destroyed
\* this step runs a swap, a submitted function, for window w
SwapStep(w) == wl'[w].swaps = wl[w].swaps + 1
FnStep(w) == \E c \in Clients : cl[c].win = w /\ cl'[c].runs = cl[c].runs + 1
\* a Close call on window w has been started
CloseCalled(w) == \E c \in Clients : cl[c].win = w /\ cl[c].op \in {"Close", "CloseReq"}

\* C1: once the window thread has taken the stop signal of Close, and so once
\* the backing texture is released or the platform window destroyed, no
\* submitted function is executed and no swap is performed for that window;
\* requests that were not received stay unreceived.
C1_NoWorkAfterStop ==
    [][\A w \in Windows :
         /\ (Released(w) \/ Destroyed(w)) => Stopped(w)
         /\ Stopped(w) => /\ ~SwapStep(w)
                          /\ ~FnStep(w)
                          /\ wl'[w].pc = "exited"
                          /\ ~(mn'.pc # "idle" /\ mn'.fn = "swap" /\ mn'.win = w)]_vars

\* a window is destroyed while a RunOnWin / GoRunOnWin request and a Publish
\* request for it are still unreceived
C1_Witness ==
    \E w \in Windows, c \in Clients :
        /\ Destroyed(w)
        /\ winTex[w] = <<>>
        /\ cl[c].win = w
        /\ cl[c].pc \in {"rq_send", "pub_send"}

\* C2: the teardown steps of Close happen in the order stop signal taken,
\* cleanup hook, Close notification, texture release, window destruction;
\* when the stop signal is taken no swap and no function of the window is in
\* progress, and the Close notification is in the event queue from step 3 on.
C2_CloseOrder ==
    \A w \in Windows :
        /\ \/ IsPrefix(closeLog[w], CloseSteps)
           \/ IsPrefix(closeLog[w], <<"stop", "event", "tex", "destroy">>)
        /\ Stopped(w) => /\ wl[w].pc = "exited"
                         /\ ~(mn.pc # "idle" /\ mn.fn = "swap" /\ mn.win = w)
        /\ Count(closeLog[w], "event") = Count(events[w], "Close")
        /\ Destroyed(w) <=> Count(closeLog[w], "destroy") > 0

\* a Close with a registered cleanup hook went through all five steps
C2_Witness == \E w \in Windows : closeLog[w] = CloseSteps /\ closeCleanFunc[w]

\* C3: a Publish call is released only by the window thread serving its own
\* request, after exactly one swap that ran after the request was accepted;
\* a request never gets more than one swap.
C3_PublishRendezvous ==
    [][\A c \in Clients :
         LET w == cl[c].win IN
         /\ (cl[c].pc = "pub_wait" /\ cl'[c].pc # "pub_wait") =>
                /\ wl[w].cur = c
                /\ wl[w].pc = "pubDone"
                /\ wl[w].swaps = 1
                /\ cl'[c].pc = "ret"
         /\ \A v \in Windows : wl'[v].swaps <= 1
         /\ \A v \in Windows : SwapStep(v) => wl[v].pc = "main_wait" /\ wl[v].cur # 0]_vars

\* two Publish calls on one window: one has returned, the other is served
C3_Witness ==
    \E c, d \in Clients :
        /\ c # d
        /\ cl[c].op = "Publish" /\ cl[d].op = "Publish"
        /\ cl[c].win = cl[d].win
        /\ cl[c].pc = "ret"
        /\ cl[d].pc = "pub_wait"
        /\ wl[cl[d].win].swaps = 1

\* C4: RunOnWin returns only after its function was run by the window
\* thread, and the function is run exactly once: not before the request is
\* received, once when the call has returned, never twice.
C4_RunOnWinOnce ==
    \A c \in Clients :
        cl[c].op \in {"RunOnWin", "GoRunOnWin"} =>
            /\ cl[c].runs <= 1
            /\ cl[c].pc = "rq_send" => cl[c].runs = 0
            /\ cl[c].pc = "ret" => cl[c].runs = 1
            /\ cl[c].runs = 1 /\ cl[c].pc = "rq_wait" =>
                   wl[cl[c].win].cur = c /\ wl[cl[c].win].pc = "sendDone"

\* two RunOnWin calls on one window: one returned, the other's function has
\* run and its completion signal is being delivered
C4_Witness ==
    \E c, d \in Clients :
        /\ c # d
        /\ cl[c].op = "RunOnWin" /\ cl[d].op = "RunOnWin"
        /\ cl[c].win = cl[d].win
        /\ cl[c].pc = "ret" /\ cl[c].runs = 1
        /\ cl[d].pc = "rq_wait" /\ cl[d].runs = 1

\* C5: every GPU / rendering-context call of a window operation is issued
\* by the main thread.
C5_AllGpuCallsOnMain == offMain = {}

\* C6: a window thread has at most one item in service, it waits while its
\* swap runs on the main thread, and every swap of a window runs with that
\* window's context current.
C6_PerWindowSerial ==
    \A w \in Windows :
        LET inService == {c \in Clients : cl[c].win = w /\ cl[c].pc \in {"rq_wait", "pub_wait"}}
        IN /\ Cardinality(inService) <= 1
           /\ \A c \in inService : wl[w].cur = c
           /\ (mn.pc # "idle" /\ mn.fn = "swap" /\ mn.win = w) =>
                  wl[w].pc = "main_wait" /\ mn.from = <<"w", w>>
           /\ (mn.pc = "signal" /\ mn.fn = "swap" /\ mn.win = w) => ctx = w
           /\ swapCtx[w] \in {NoSwap, w}

\* both windows have been swapped, each under its own context
C6_Witness ==
    /\ \A w \in Windows : swapCtx[w] = w
    /\ \E w \in Windows : ctx # w

\* C7: over any Close and CloseReq calls on a window, the cleanup hook, the
\* Close notification, the texture release and the window destruction each
\* happen at most once, and a window thread that has stopped stays stopped.
C7_DestroyedOnce ==
    [][\A w \in Windows :
         /\ \A i \in 1..Len(CloseSteps) : Count(closeLog'[w], CloseSteps[i]) <= 1
         /\ Count(events'[w], "Close") <= 1
         /\ wl[w].pc = "exited" => wl'[w].pc = "exited"
         /\ Stopped(w) => wl[w].pc = "exited"]_vars

\* a window was closed by one call while a second Close call on it is held
\* at the stop signal
C7_Witness ==
    \E w \in Windows, c, d \in Clients :
        /\ c # d
        /\ cl[c].win = w /\ cl[d].win = w
        /\ cl[c].op \in {"Close", "CloseReq"} /\ cl[c].pc = "ret"
        /\ cl[d].op \in {"Close", "CloseReq"} /\ cl[d].pc = "close_send"
        /\ closeLog[w] = <<"stop", "event", "tex", "destroy">>

\* C20: a resize notification with a new client size leaves the window's
\* recorded size and the size of its backing texture at the new size and
\* the texture without cached image, and the Resize event is put on the
\* queue by the same notification, after the texture was resized.
C20_ResizeTracksSize ==
    [][\A w \in Windows :
         (resizes' = resizes + 1 /\ glw'[w].size # glw[w].size) =>
            /\ Sz'[w] = glw'[w].size
            /\ winTex'[w] # <<>>
            /\ winTex'[w][1].size = glw'[w].size
            /\ txImage(winTex'[w][1]) = <<>>
            /\ events'[w] = Append(events[w], "Resize")]_vars

\* C9: the function PublishTex hands to the main thread (make the context
\* current, blit the backing texture) completes there: the main thread is
\* never held by it waiting for the main thread, and PublishTex goes on to
\* Publish only after the blit.
C9_PublishTexCompletes ==
    \A c \in Clients :
        cl[c].op = "PublishTex" =>
            /\ ~(mn.pc = "nested" /\ mn.from = <<"c", c>>)
            /\ cl[c].pc \in {"main_send", "main_wait", "pub_send", "pub_wait", "ret"}


\* ------------------------------------------------------------------------
\* Scheduling: every goroutine that can take a step eventually takes one, and
\* the main thread keeps serving its queue.  The callers' choice to start an
\* operation and the arrival of resize notifications are not forced.
\* ------------------------------------------------------------------------
ClientStep(c) ==
    \/ CloseReqQuitting(c)
    \/ CloseReqHook(c)
    \/ CloseClean(c)
    \/ CloseSendEvent(c)
    \/ CloseTexDelete(c)
    \/ CloseTexNil(c)

WinStep(w) ==
    \/ \E c \in Clients : WinRecvClose(w, c)
    \/ \E c \in Clients : WinRecvRun(w, c)
    \/ WinRunF(w)
    \/ WinSendDone(w)
    \/ \E c \in Clients : WinRecvPublish(w, c)
    \/ \E c \in Clients : WinSendPublishDone(w, c)

MainStep ==
    \/ \E c \in Clients : MainAcceptClient(c)
    \/ \E w \in Windows : MainAcceptWin(w)
    \/ MainActivate
    \/ MainSwap
    \/ \E kind \in DrawKinds : MainDraw(kind)
    \/ \E a \in WinSubImgArgs : MainSubImage(a)
    \/ MainBlit
    \/ MainDestroy
    \/ MainSignal

SpecWinFair ==
    /\ SpecWin
    /\ \A c \in Clients : WF_vars(ClientStep(c))
    /\ \A w \in Windows : WF_vars(WinStep(w))
    /\ WF_vars(MainStep)

\* C8: a Publish call on a window that is not being closed eventually
\* returns.
C8_PublishReturns ==
    \A c \in Clients :
        (cl[c].op = "Publish" /\ cl[c].pc \in {"pub_send", "pub_wait"})
            ~> (\/ cl[c].pc = "ret"
                \/ panicked
                \/ \E w \in Windows : cl[c].win = w /\ (Stopped(w) \/ CloseCalled(w)))

\* ------------------------------------------------------------------------
\* The viewport tree driven by the signals of its nodes
\* ------------------------------------------------------------------------
\* placements and sizes of the child viewport; a size with a zero side gives
\* it empty bounds
SubBoxes == {[Min |-> Pt(0, 0), Size |-> Pt(1, 1)], [Min |-> Pt(1, 0), Size |-> Pt(1, 1)],
             [Min |-> Pt(1, 1), Size |-> Pt(MaxDim, 1)], [Min |-> Pt(0, 0), Size |-> Pt(0, 1)]}
\* the nodes that signal the root viewport, and the colours each can take
Senders == {"sub", "wdg"}
Cols(node) == IF node = "sub" THEN SubCols ELSE WdgCols

\* the tree after construction; the texture and the windows are not used
InitVp ==
    /\ tex = NewTexture(ZP)
    /\ call = NoCall
    /\ winTex = [w \in Windows |-> <<NewTexture(Pt(2, 2))>>]
    /\ glw = [w \in Windows |-> [destroyed |-> FALSE, size |-> Pt(2, 2)]]
    /\ Sz = [w \in Windows |-> Pt(2, 2)]
    /\ events = [w \in Windows |-> <<>>]
    /\ closeCleanFunc = [w \in Windows |-> FALSE]
    /\ closeReqFunc = [w \in Windows |-> FALSE]
    /\ quitting = FALSE
    /\ wl = [w \in Windows |-> [pc |-> "select", cur |-> 0, swaps |-> 0]]
    /\ cl = [c \in Clients |-> IdleClient]
    /\ mn = Idle
    /\ ctx = 0
    /\ offMain = {}
    /\ swapCtx = [w \in Windows |-> NoSwap]
    /\ closeLog = [w \in Windows |-> <<>>]
    /\ opsStarted = 0
    /\ resizes = 0
    /\ panicked = FALSE
    /\ Flag = [w \in Windows |-> {}]
    /\ vps \in {NewScene(vb.Min, vb.Size, fill, FALSE, FALSE).vps :
                  vb \in SubBoxes, fill \in BOOLEAN}
    /\ wdg \in {NewScene(ZP, ZP, FALSE, can, FALSE).wdg : can \in BOOLEAN}
    /\ gwin \in {NewScene(ZP, ZP, FALSE, FALSE, has).win : has \in BOOLEAN}
    /\ behind = IdleScene.behind
    /\ vlog = NoLog

\* the tree as it stands, no call made yet
Scene == [vps |-> vps, wdg |-> wdg, win |-> gwin, behind |-> behind, trace |-> <<>>]
\* the node's colour is set (its property changes before it signals)
SetCol(g, node, col) ==
    IF node = "wdg" THEN [g EXCEPT !.wdg.col = col] ELSE [g EXCEPT !.vps[node].bg = col]
\* the operation op took the tree from pre to g
Done(op, node, sig, pre, g) ==
    /\ vps' = g.vps
    /\ wdg' = g.wdg
    /\ gwin' = g.win
    /\ behind' = g.behind
    /\ vlog' = [op |-> op, node |-> node, sig |-> sig, trace |-> g.trace, pre |-> pre]
    /\ UNCHANGED <<Flag, texVars, winVars>>

\* a node of the root changes and signals the root (SignalViewport2D is
\* connected to the node's signal with the root as receiver)
VpSignal(node, sig, col) ==
    LET pre == SetCol(Scene, node, col)
    IN Done("SignalViewport2D", node, sig, pre, SignalViewport2D(pre, "root", node, sig))

\* a viewport signals itself
VpNodeSig(v, sig) == Done("NodeSig", v, sig, Scene, Init2DNodeSig(Scene, v, sig))

\* Render2D is called on a viewport
VpRender2D(v) == Done("Render2D", v, "none", Scene, Render2D(Scene, v))

NextVp ==
    \/ \E node \in Senders, sig \in NodeSignals :
          \E col \in Cols(node) : VpSignal(node, sig, col)
    \/ \E v \in VpIds, sig \in NodeSignals : VpNodeSig(v, sig)
    \/ \E v \in VpIds : VpRender2D(v)

SpecVp == InitVp /\ [][NextVp]_vars

\* ------------------------------------------------------------------------
\* Properties of the viewport tree
\* ------------------------------------------------------------------------
\* the last operation called fn on the node
Called(fn, on) == \E i \in 1..Len(vlog.trace) : vlog.trace[i].fn = fn /\ vlog.trace[i].on = on
\* the last operation rendered the node: a viewport pushed its bounds, the
\* widget drew
Rendered(n) == IF n = "wdg" THEN Called("Render2D", "wdg") ELSE Called("PushBounds", n)
\* the first call of the last operation
FirstCall(fn, on) == vlog.trace # <<>> /\ vlog.trace[1] = TraceEntry(fn, on, NoImage)
\* the rectangle a node of the root takes in the root
NodeBBox(n) == IF n = "sub" THEN vbBounds(vps["sub"].ViewBox) ELSE wdg.VpBBox
\* the root's pixels outside r are what they were before the last operation
SameOutside(r) ==
    \A p \in RectPoints(vps["root"].Pixels.Rect) :
       ~PtIn(p, r) => At(vps["root"].Pixels, p.X, p.Y) = At(vlog.pre.vps["root"].Pixels, p.X, p.Y)

\* C21: a structural change signal makes the viewport render its whole
\* subtree in full, whether or not the node that signalled can re-render in
\* isolation; the partial path is never taken.
C21_StructuralFullRender ==
    (vlog.op = "SignalViewport2D" /\ NodeSignalAnyMod(vlog.sig)) =>
        /\ FirstCall("FullRender2DTree", "root")
        /\ ~Called("ReRender2DNode", vlog.node)
        /\ ~Called("ReRender2DTree", "root")
        /\ Rendered("root")
        /\ Rendered("wdg")
        /\ (~RectEmpty(vps["sub"].Pixels.Rect) => Rendered("sub"))
C21_Witness ==
    /\ vlog.op = "SignalViewport2D"
    /\ vlog.sig = "ChildAdded"
    /\ CanReRender2D(vlog.pre, vlog.node)
    /\ Called("DrawIntoParent", "sub")
    /\ Called("DrawIntoWindow", "root")

C23_BackingIsParentRegion ==
    \A i \in 1..Len(vlog.trace) :
       vlog.trace[i].fn = "CopyBacking" =>
          LET vp == vps[vlog.trace[i].on]
          IN /\ \A p \in RectPoints(vbSizeRect(vp.ViewBox)) :
                   At(vp.Backing[1], p.X, p.Y)
                     = At(vlog.trace[i].pix, vp.ViewBox.Min.X + p.X, vp.ViewBox.Min.Y + p.Y)
             /\ \A j \in 1..(i - 1) :
                   ~(vlog.trace[j].fn = "DrawIntoParent" /\ vlog.trace[j].on = vlog.trace[i].on)

\* C24: after a render of the child, the parent's pixels under the child's
\* rectangle are the child's pixel where it is not transparent and the
\* pixel behind the child where it is, and the backing holds the pixels
\* behind the child, never what the child drew in an earlier frame.
C24_NoStaleAccumulation ==
    Called("DrawIntoParent", "sub") =>
       LET vp == vps["sub"]
       IN \A p \in RectPoints(RectIntersect(vbBounds(vp.ViewBox), vps["root"].Pixels.Rect)) :
             LET c == At(vp.Pixels, p.X - vp.ViewBox.Min.X, p.Y - vp.ViewBox.Min.Y)
             IN /\ At(vps["root"].Pixels, p.X, p.Y)
                     = IF c = 0 THEN At(behind, p.X, p.Y) ELSE c
                /\ At(vp.Backing[1], p.X - vp.ViewBox.Min.X, p.Y - vp.ViewBox.Min.Y)
                     = At(behind, p.X, p.Y)

\* the operation composited the child viewport into the root
Composited(l) ==
    \E i \in 1..Len(l.trace) : l.trace[i].fn = "DrawIntoParent" /\ l.trace[i].on = "sub"
\* the operation rendered the child viewport and nothing else
SubOnly(l) ==
    \/ l.op = "SignalViewport2D" /\ l.node = "sub" /\ l.trace # <<>>
          /\ l.trace[1].fn = "ReRender2DNode"
    \/ l.op \in {"Render2D", "NodeSig"} /\ l.node = "sub"

\* C25: when the child viewport is rendered a second time in a row and its
\* pixels are the same, the parent's pixels after the second render are
\* those after the first.
C25_CompositingStable ==
    [][(/\ Composited(vlog)
        /\ Composited(vlog')
        /\ SubOnly(vlog')
        /\ vps'["sub"].Pixels = vps["sub"].Pixels)
          => vps'["root"].Pixels = vps["root"].Pixels]_vars
C25_Witness ==
    /\ Composited(vlog)
    /\ SubOnly(vlog)
    /\ vlog.pre.vps["sub"].Backing # <<>>
    /\ vlog.pre.vps["sub"].Pixels = vps["sub"].Pixels
    /\ vlog.pre.vps["root"].Pixels = vps["root"].Pixels
    /\ At(vps["sub"].Pixels, 0, 0) = SemiCol
    /\ At(vps["root"].Pixels, vps["sub"].ViewBox.Min.X, vps["sub"].ViewBox.Min.Y) = SemiCol

\* C26: the root viewport is never composited: it has no backing, and when
\* it is rendered its pixels are handed to its window; a viewport with a
\* parent is never presented to the window.
C26_RootPresents ==
    /\ vps["root"].Backing = <<>>
    /\ \A i \in 1..Len(vlog.trace) :
          /\ vlog.trace[i].fn = "DrawIntoWindow" => vps[vlog.trace[i].on].Viewport = "nil"
          /\ vlog.trace[i].fn \in {"CopyBacking", "DrawIntoParent"}
                => vps[vlog.trace[i].on].Viewport # "nil"
    /\ (gwin.has /\ (Called("PopBounds", "root") \/ (vlog.trace # <<>> /\ vlog.trace[1].fn = "ReRender2DNode")))
          => (Called("DrawIntoWindow", "root") /\ gwin.img = <<vps["root"].Pixels>>)
C26_Witness ==
    /\ Called("DrawIntoWindow", "root")
    /\ Called("DrawIntoParent", "sub")
    /\ gwin.img = <<vps["root"].Pixels>>
    /\ vps["sub"].Backing # <<>>

\* C27: the clip stack of every viewport is as deep after a render as it
\* was before it, whether the render went through or stopped at empty
\* bounds.
C27_ClipBalance ==
    \A v \in VpIds : Len(vps[v].Render) = Len(vlog.pre.vps[v].Render)
C27_Witness ==
    /\ Called("PushBounds", "root")
    /\ Called("PushBounds", "sub")
    /\ Called("Render2D", "wdg")
    /\ Called("PopBounds", "sub")
    /\ Called("PopBounds", "root")

\* C28: Render2D on a viewport whose bounding box is empty pushes no clip,
\* fills nothing, renders no child, copies no backing, draws nothing into a
\* parent and presents nothing: every pixel buffer is as before.
C28_EmptyBoundsSkip ==
    (vlog.op = "Render2D" /\ RectEmpty(vlog.pre.vps[vlog.node].VpBBox)) =>
        /\ vlog.trace = <<>>
        /\ vps = vlog.pre.vps
        /\ wdg = vlog.pre.wdg
        /\ gwin = vlog.pre.win
C28_Witness ==
    /\ vlog.op = "Render2D"
    /\ vlog.node = "root"
    /\ RectEmpty(vps["root"].VpBBox)
    /\ ~RectEmpty(vps["sub"].VpBBox)
    /\ vps["root"].Fill

\* ------------------------------------------------------------------------
\* Focus and minimize notifications of the platform (window callbacks)
\* ------------------------------------------------------------------------
\* a window as NewWindow leaves it: neither focused nor minimized
InitFlag ==
    /\ tex = NewTexture(ZP)
    /\ call = NoCall
    /\ winTex = [w \in Windows |-> <<NewTexture(Pt(2, 2))>>]
    /\ glw = [w \in Windows |-> [destroyed |-> FALSE, size |-> Pt(2, 2)]]
    /\ Sz = [w \in Windows |-> Pt(2, 2)]
    /\ events = [w \in Windows |-> <<>>]
    /\ closeCleanFunc = [w \in Windows |-> FALSE]
    /\ closeReqFunc = [w \in Windows |-> FALSE]
    /\ quitting = FALSE
    /\ wl = [w \in Windows |-> [pc |-> "select", cur |-> 0, swaps |-> 0]]
    /\ cl = [c \in Clients |-> IdleClient]
    /\ mn = Idle
    /\ ctx = 0
    /\ offMain = {}
    /\ swapCtx = [w \in Windows |-> NoSwap]
    /\ closeLog = [w \in Windows |-> <<>>]
    /\ opsStarted = 0
    /\ resizes = 0
    /\ panicked = FALSE
    /\ Flag = [w \in Windows |-> {}]
    /\ vps = IdleScene.vps
    /\ wdg = IdleScene.wdg
    /\ gwin = IdleScene.win
    /\ behind = IdleScene.behind
    /\ vlog = NoLog

\* bitflag.SetAtomic / ClearAtomic on WindowBase.Flag
SetAtomic(bits, flag) == bits \cup {flag}
ClearAtomic(bits, flag) == bits \ {flag}

\* focus: the window gained or lost the input focus
focus_KeepMinimized(w, focused) ==
    /\ opsStarted < MaxOps
    /\ IF focused
       THEN /\ Flag' = [Flag EXCEPT ![w] = SetAtomic(@, "Focus")]
            /\ events' = [events EXCEPT ![w] = sendWindowEvent(@, "Focus")]
       ELSE /\ Flag' = [Flag EXCEPT ![w] = ClearAtomic(@, "Focus")]
            /\ events' = [events EXCEPT ![w] = sendWindowEvent(@, "DeFocus")]
    /\ opsStarted' = opsStarted + 1
    /\ UNCHANGED <<tex, call, winTex, glw, Sz, closeCleanFunc, closeReqFunc, quitting, wl,
                   cl, mn, ctx, offMain, swapCtx, closeLog, resizes, panicked,
                   vps, wdg, gwin, behind, vlog>>

focus(w, focused) ==
    /\ opsStarted < MaxOps
    /\ IF focused
       THEN /\ Flag' = [Flag EXCEPT ![w] = SetAtomic(ClearAtomic(@, "Minimized"), "Focus")]
            /\ events' = [events EXCEPT ![w] = sendWindowEvent(@, "Focus")]
       ELSE /\ Flag' = [Flag EXCEPT ![w] = ClearAtomic(@, "Focus")]
            /\ events' = [events EXCEPT ![w] = sendWindowEvent(@, "DeFocus")]
    /\ opsStarted' = opsStarted + 1
    /\ UNCHANGED <<tex, call, winTex, glw, Sz, closeCleanFunc, closeReqFunc, quitting, wl,
                   cl, mn, ctx, offMain, swapCtx, closeLog, resizes, panicked,
                   vps, wdg, gwin, behind, vlog>>

\* iconify: the window was minimized or restored; both send Minimize
iconify(w, iconified) ==
    /\ opsStarted < MaxOps
    /\ IF iconified
       THEN Flag' = [Flag EXCEPT ![w] = ClearAtomic(SetAtomic(@, "Minimized"), "Focus")]
       ELSE Flag' = [Flag EXCEPT ![w] = ClearAtomic(@, "Minimized")]
    /\ events' = [events EXCEPT ![w] = sendWindowEvent(@, "Minimize")]
    /\ opsStarted' = opsStarted + 1
    /\ UNCHANGED <<tex, call, winTex, glw, Sz, closeCleanFunc, closeReqFunc, quitting, wl,
                   cl, mn, ctx, offMain, swapCtx, closeLog, resizes, panicked,
                   vps, wdg, gwin, behind, vlog>>

NextFlag ==
    \/ \E w \in Windows, focused \in BOOLEAN : focus(w, focused)
    \/ \E w \in Windows, iconified \in BOOLEAN : iconify(w, iconified)

SpecFlag == InitFlag /\ [][NextFlag]_vars

\* the notification that the step delivered to window w
Notified(w, e) == events'[w] = Append(events[w], e)

\* C29 (as stated): focus and minimize are orthogonal: a focus notification
\* leaves the window's Minimized flag as it was and a minimize notification
\* leaves its Focus flag as it was.
C29_Orthogonal ==
    [][\A w \in Windows :
          /\ (Notified(w, "Focus") \/ Notified(w, "DeFocus"))
                => ("Minimized" \in Flag'[w] <=> "Minimized" \in Flag[w])
          /\ Notified(w, "Minimize") => ("Focus" \in Flag'[w] <=> "Focus" \in Flag[w])]_vars

\* C29 (amended): gaining the focus sets Focus and clears Minimized, being
\* minimized sets Minimized and clears Focus, losing the focus changes only
\* Focus and being restored changes only Minimized; a window is never both
\* focused and minimized.
C29_FocusMinimizeCoupled ==
    [][\A w \in Windows :
          /\ Notified(w, "Focus") => Flag'[w] = (Flag[w] \ {"Minimized"}) \cup {"Focus"}
          /\ Notified(w, "DeFocus") => Flag'[w] = Flag[w] \ {"Focus"}
          /\ Notified(w, "Minimize")
                => Flag'[w] \in {(Flag[w] \ {"Focus"}) \cup {"Minimized"},
                                 Flag[w] \ {"Minimized"}}
          /\ ~({"Focus", "Minimized"} \subseteq Flag'[w])]_vars
\* a minimized window gained the focus
C29_Witness ==
    \E w \in Windows : Flag[w] = {"Focus"} /\ events[w] = <<"Minimize", "Focus">>

\* C30: a CloseReq calls Close at most once: having returned from the Close
\* it made because the application is quitting, it does not call Close
\* again.
C30_CloseReqClosesOnce ==
    [][\A c \in Clients :
          ~(/\ cl[c].op = "CloseReq"
            /\ cl[c].pc = "cr_hook"
            /\ cl[c].after = "cr_hook"
            /\ cl'[c].pc = "close_send")]_vars

\* ------------------------------------------------------------------------
\* Requests left unreceived by a stopped window thread
\* ------------------------------------------------------------------------
\* the caller of RunOnWin or Publish, or the helper goroutine of GoRunOnWin,
\* is at its send to the window thread of w
Unreceived(c, w) == cl[c].win = w /\ cl[c].pc \in {"rq_send", "pub_send"}

\* C31: once the window thread has taken the stop signal of Close, a caller
\* of RunOnWin or Publish whose request it has not received, and the helper
\* goroutine of a GoRunOnWin in the same situation, stay blocked at their
\* send: no step receives the request, returns to the caller or wakes it.
C31_UnreceivedBlockedForever ==
    [][\A w \in Windows, c \in Clients :
          (Stopped(w) /\ Unreceived(c, w))
              => /\ cl'[c] = cl[c]
                 /\ wl'[w].pc = "exited"]_vars

\* Close has returned, its window is destroyed, and a RunOnWin caller (a
\* GoRunOnWin helper, a Publish caller) is still at its send
C31_Witness ==
    \E w \in Windows, c, d \in Clients :
        /\ Destroyed(w)
        /\ cl[d].op = "Close" /\ cl[d].win = w /\ cl[d].pc = "ret"
        /\ Unreceived(c, w)
        /\ cl[c].op \in {"RunOnWin", "GoRunOnWin", "Publish"}

\* ------------------------------------------------------------------------
\* The backing texture between its release and the window's destruction
\* ------------------------------------------------------------------------
\* C32: while Close has set the backing texture of a window to nil and the
\* platform window is not yet destroyed, no resize notification,
\* SetWinTexSubImage or PublishTex has dereferenced the nil texture (which
\* ends the process).
C32_NoUseAfterRelease ==
    \A w \in Windows : (winTex[w] = <<>> /\ ~Destroyed(w)) => ~panicked

\* ------------------------------------------------------------------------
\* Submitted functions that call back into their own window
\* ------------------------------------------------------------------------
\* the calls a submitted function makes on the window whose thread runs it
InnerCalls == {"RunOnWin", "Publish"}

\* a goroutine submits, with RunOnWin or GoRunOnWin, a function that itself
\* calls RunOnWin or Publish on the same window
StartNested(c, op, fn, w) ==
    /\ Running
    /\ opsStarted < MaxOps
    /\ FirstWindow(w)
    /\ cl[c].pc \in {"idle", "ret"}
    /\ \A d \in Clients : d < c => cl[d].pc # "idle"
    /\ cl' = [cl EXCEPT ![c] = [pc |-> EntryPc(op), op |-> op, win |-> w,
                                after |-> "ret", runs |-> 0, fn |-> fn]]
    /\ opsStarted' = opsStarted + 1
    /\ UNCHANGED <<guiVars, tex, call, winTex, glw, Sz, events, closeCleanFunc, closeReqFunc, quitting,
                   wl, mn, ctx, offMain, swapCtx, closeLog, resizes, panicked>>

NextWinNested ==
    \/ NextWin
    \/ \E c \in Clients, op \in {"RunOnWin", "GoRunOnWin"}, fn \in InnerCalls, w \in Windows :
          StartNested(c, op, fn, w)

SpecWinNested == InitWin /\ [][NextWinNested]_vars

\* the window thread of w has started a function that calls back into w
InnerCalled(w) ==
    \E c \in Clients : cl[c].win = w /\ cl[c].fn # "plain" /\ cl[c].runs > 0

\* C33: once the window thread runs a function that calls RunOnWin or
\* Publish on its own window, the thread stays at the send of that inner
\* call for ever: the inner call does not return, the thread runs no further
\* function and no swap, receives no request and takes no stop signal, so
\* the RunOnWin that submitted the function and every later RunOnWin,
\* Publish and Close on the window stay blocked.
C33_NotReentrant ==
    [][\A w \in Windows :
          InnerCalled(w) =>
              /\ wl[w].pc \in {"inner_rq_send", "inner_pub_send"}
              /\ wl'[w] = wl[w]
              /\ ~SwapStep(w) /\ ~FnStep(w)
              /\ closeLog'[w] = <<>>
              /\ \A c \in Clients :
                    (cl[c].win = w /\ cl[c].pc \in {"rq_send", "rq_wait", "pub_send",
                                                    "close_send"})
                        => cl'[c].pc = cl[c].pc]_vars

\* the window thread is inside a function, submitted with RunOnWin, that
\* called Publish on the same window; the submitter waits for it and a Close
\* of the window waits to hand over its stop signal
C33_Witness ==
    \E w \in Windows, c, d \in Clients :
        /\ wl[w].pc = "inner_pub_send"
        /\ cl[c].op = "RunOnWin" /\ cl[c].fn = "Publish" /\ cl[c].win = w
        /\ cl[c].pc = "rq_wait" /\ cl[c].runs = 1
        /\ cl[d].op = "Close" /\ cl[d].win = w /\ cl[d].pc = "close_send"

\* ------------------------------------------------------------------------
\* The OpenGL calls of the texture methods and the error hook
\* ------------------------------------------------------------------------
\* The calls a method makes, in order, as the names of the gl functions;
\* "ErrCheck" is a call of the error hook gpu.TheGPU.ErrCheck.

\* Activate
txActivateGl(tx) ==
    IF ~tx.init
    THEN <<"GenTextures", "ActiveTexture", "BindTexture", "TexParameteri", "TexParameteri",
           "TexParameteri", "TexParameteri", "TexImage2D">>
    ELSE <<"ActiveTexture", "BindTexture">>

\* Delete
txDeleteGl(tx) == IF ~tx.init THEN <<>> ELSE <<"DeleteTextures">>

\* SetImage: Delete and Activate when the texture is active
txSetImageGl(tx, img) ==
    IF rgbaImage(img).err \/ ~tx.init
    THEN <<>>
    ELSE txDeleteGl(tx) \o txActivateGl(txDelete(tx))

\* SetSubImage: Activate, then one upload followed by the error hook, or one
\* upload for each row of dr
txSetSubImageGl(tx, dp, src, sr) ==
    LET dr == subImageDr(tx, dp, src, sr)
    IN IF rgbaImage(src).err \/ RectEmpty(dr)
       THEN <<>>
       ELSE txActivateGl(tx) \o
            (IF subImageBulk(tx, dp, src, sr)
             THEN <<"TexSubImage2D", "ErrCheck">>
             ELSE [y \in 1..(dr.Max.Y - dr.Min.Y) |-> "TexSubImage2D"])

\* SetSize: Delete and Activate when the size changes on an active texture
txSetSizeGl(tx, size) ==
    IF tx.size = size \/ ~tx.init
    THEN <<>>
    ELSE txDeleteGl(tx) \o txActivateGl(txDelete(tx))

\* the calls of the operation recorded in c
glCalls(c) ==
    CASE c.op = "Activate" -> txActivateGl(c.pre)
      [] c.op = "ActivateFramebuffer" -> txActivateGl(c.pre)
      [] c.op = "Delete" -> txDeleteGl(c.pre)
      [] c.op = "SetImage" -> txSetImageGl(c.pre, c.src)
      [] c.op = "SetSubImage" -> txSetSubImageGl(c.pre, c.dp, c.src, c.sr)
      [] c.op = "SetSize" -> txSetSizeGl(c.pre, c.size)
      [] OTHER -> <<>>

\* the calls that allocate or write the pixels of the GPU object
GlWrites == {"TexImage2D", "TexSubImage2D"}

\* C34: in every texture operation, each call that allocates or uploads the
\* pixels of the GPU object (the bulk upload of SetSubImage, each of its row
\* uploads, the allocation of Activate) is followed, before the operation
\* returns, by a call of the error hook.
C34_ErrCheckAfterGpuWrites ==
    LET gl == glCalls(call)
    IN \A i \in 1..Len(gl) :
          gl[i] \in GlWrites => \E j \in (i + 1)..Len(gl) : gl[j] = "ErrCheck"

\* ------------------------------------------------------------------------
\* Image() and the contents of the GPU object
\* ------------------------------------------------------------------------
\* the image Image() returns holds exactly the pixels of the GPU object of tx
ImageShowsGpu(tx) ==
    /\ txImage(tx) # <<>>
    /\ RectSize(txImage(tx)[1].Rect) = tx.size
    /\ \A p \in DOMAIN tx.pix :
          At(txImage(tx)[1], txImage(tx)[1].Rect.Min.X + p.X,
             txImage(tx)[1].Rect.Min.Y + p.Y) = tx.pix[p]

\* C35: on an activated texture Image() returns the current contents of the
\* GPU object: after a SetSubImage the returned image has the size of the
\* texture and holds, at every point, the pixel the GPU object holds there,
\* the uploaded ones included.
C35_ImageIsGpuContents ==
    (tex.init /\ call.op = "SetSubImage") => ImageShowsGpu(tex)

\* ------------------------------------------------------------------------
\* The framebuffer of a texture that was resized, reloaded or deleted
\* ------------------------------------------------------------------------
\* C36: whenever ActivateFramebuffer has activated the framebuffer of a
\* texture, the framebuffer has the current size of the texture and is
\* attached to the texture's current GPU object, which is live, whatever
\* SetSize, SetImage and Delete calls were made since it was created.
C36_FramebufferMatchesTexture ==
    call.op = "ActivateFramebuffer" =>
        /\ tex.fbuff # <<>>
        /\ tex.fbuff[1].size = tex.size
        /\ tex.fbuff[1].attached = tex.handle
        /\ tex.handle \in tex.live

\* ------------------------------------------------------------------------
\* Open: loading the texture from an image file
\* ------------------------------------------------------------------------
\* What a path leads to: a file that cannot be opened (os.Open fails), one
\* that cannot be decoded (image.Decode fails), or one that decodes to an
\* image.
Files ==
    {[kind |-> "noFile", img |-> NoImage], [kind |-> "noImage", img |-> NoImage]}
    \cup {[kind |-> "image", img |-> img] : img \in TexImages}

\* whether Open returns an error
txOpenErr(file) == file.kind # "image" \/ txSetImageErr(file.img)

\* the texture is deleted and its image dropped before the file is opened
txOpen_ResetFirst(tx, file) ==
    IF file.kind # "image"
    THEN [txDelete(tx) EXCEPT !.img = <<>>]
    ELSE txSetImage(tx, file.img)

\* Open: os.Open, image.Decode, each returning its error, then SetImage
txOpen(tx, file) ==
    IF file.kind = "noFile"
    THEN tx
    ELSE IF file.kind = "noImage"
         THEN tx
         ELSE txSetImage(tx, file.img)

TexOpen(file) ==
    /\ tex.gens < MaxGen
    /\ tex' = txOpen(tex, file)
    /\ call' = Call("Open", tex, ZP, file.img, ZR, ZP, txOpenErr(file))
    /\ UNCHANGED <<guiVars, winVars>>

NextOpen ==
    \/ NextTex
    \/ \E file \in Files : TexOpen(file)

SpecOpen == InitTex /\ [][NextOpen]_vars

\* C37: a call of Open, SetImage or SetSubImage that returns an error leaves
\* the texture as it was: size, cached image, active flag, GPU handle and
\* framebuffer are those before the call, and no GPU object was generated or
\* deleted.
C37_ErrorLeavesTexture ==
    (call.op \in {"Open", "SetImage", "SetSubImage"} /\ call.err) =>
        /\ tex.size = call.pre.size
        /\ txImage(tex) = txImage(call.pre)
        /\ tex.init = call.pre.init
        /\ tex.handle = call.pre.handle
        /\ tex.fbuff = call.pre.fbuff
        /\ tex.gens = call.pre.gens /\ tex.dels = call.pre.dels
        /\ tex.live = call.pre.live /\ tex.pix = call.pre.pix

\* Open has failed on an active texture that holds an image and has already
\* replaced its GPU object once
C37_Witness ==
    /\ call.op = "Open" /\ call.err
    /\ call.pre.init /\ txImage(call.pre) # <<>>
    /\ tex.init /\ tex.gens >= 2

====
